---- MODULE Spec2Model ----
(***************************************************************************)
(* A model of big-complex.js: the Complex value type of src/complex.js     *)
(* (instance methods, fields re/im) and of its earlier static form in      *)
(* src/unnamed/part_001 (static methods, fields real/imaginary), both on   *)
(* top of decimal.js.  The Decimal engine is modelled by what it does:     *)
(* signed decimal floating point on digit sequences, every arithmetic      *)
(* result rounded half-up to PRECISION significant digits, with NaN,       *)
(* signed Infinity and signed zero.  Results of transcendental functions   *)
(* that are not exact are kept as terms over their arguments.              *)
(***************************************************************************)
EXTENDS Integers, Sequences, FiniteSets

(***************************************************************************)
(* Natural numbers as big-endian sequences of decimal digits, no leading   *)
(* zero; <<>> is 0.  decimal.js keeps the coefficient of a Decimal as such *)
(* a digit array (field d), so no machine width limits it.                 *)
(***************************************************************************)
Reverse(s) == [i \in 1..Len(s) |-> s[Len(s) - i + 1]]

Zeros(n) == [i \in 1..n |-> 0]

NStrip(a) ==
  LET lead == CHOOSE k \in 0..Len(a) :
                /\ \A i \in 1..k : a[i] = 0
                /\ (k = Len(a) \/ a[k + 1] # 0)
  IN SubSeq(a, lead + 1, Len(a))

NShift(a, n) == IF a = <<>> THEN <<>> ELSE a \o Zeros(n)

NCmp(a, b) ==
  IF Len(a) # Len(b) THEN (IF Len(a) < Len(b) THEN -1 ELSE 1)
  ELSE IF a = b THEN 0
  ELSE LET i == CHOOSE j \in 1..Len(a) :
                  a[j] # b[j] /\ \A h \in 1..(j - 1) : a[h] = b[h]
       IN IF a[i] < b[i] THEN -1 ELSE 1

(* The engine holds the digits in words of LOG_BASE digits and carries     *)
(* from word to word.  On digits kept least significant first: Word is the *)
(* value of the first word, Rest the digits after it, WordDigits the       *)
(* LOG_BASE digits of a word's value.                                      *)
LOG_BASE == 7

BASE == 10000000

Pow10 == <<1, 10, 100, 1000, 10000, 100000, 1000000>>

DigitAt(a, i) == IF i <= Len(a) THEN a[i] * Pow10[i] ELSE 0

Word(a) ==
  DigitAt(a, 1) + DigitAt(a, 2) + DigitAt(a, 3) + DigitAt(a, 4) + DigitAt(a, 5)
    + DigitAt(a, 6) + DigitAt(a, 7)

Rest(a) == IF Len(a) <= LOG_BASE THEN <<>> ELSE SubSeq(a, LOG_BASE + 1, Len(a))

WordDigits(t) == [i \in 1..LOG_BASE |-> (t \div Pow10[i]) % 10]

RECURSIVE NAddRev(_, _, _)
NAddWord(a, b, t) == WordDigits(t % BASE) \o NAddRev(Rest(a), Rest(b), t \div BASE)

NAddRev(a, b, c) ==
  IF a = <<>> /\ b = <<>> THEN (IF c = 0 THEN <<>> ELSE <<c>>)
  ELSE NAddWord(a, b, Word(a) + Word(b) + c)

\* the operands are evaluated first, then added
NAdd(a, b) ==
  IF Len(a) + Len(b) = 0 THEN <<>>
  ELSE NStrip(Reverse(NAddRev(Reverse(a), Reverse(b), 0)))

\* a - b for a >= b
RECURSIVE NSubRev(_, _, _)
NSubWord(a, b, t) ==
  WordDigits((t + BASE) % BASE) \o NSubRev(Rest(a), Rest(b), IF t < 0 THEN 1 ELSE 0)

NSubRev(a, b, c) ==
  IF a = <<>> THEN <<>>
  ELSE NSubWord(a, b, Word(a) - Word(b) - c)

NSub(a, b) ==
  IF Len(a) + Len(b) = 0 THEN <<>>
  ELSE NStrip(Reverse(NSubRev(Reverse(a), Reverse(b), 0)))

RECURSIVE NMulDigitRev(_, _, _)
NMulDigitWord(a, k, t) == WordDigits(t % BASE) \o NMulDigitRev(Rest(a), k, t \div BASE)

NMulDigitRev(a, k, c) ==
  IF a = <<>> THEN (IF c = 0 THEN <<>> ELSE <<c>>)
  ELSE NMulDigitWord(a, k, Word(a) * k + c)

NMulDigit(a, k) ==
  IF Len(a) = 0 \/ k = 0 THEN <<>>
  ELSE NStrip(Reverse(NMulDigitRev(Reverse(a), k, 0)))

\* a * b: a times the leading half of b's digits, shifted, plus a times the rest
RECURSIVE NMul(_, _)
NMul(a, b) ==
  IF b = <<>> THEN <<>>
  ELSE IF Len(b) = 1 THEN NMulDigit(a, b[1])
  ELSE NAdd(NShift(NMul(a, SubSeq(b, 1, Len(b) \div 2)), Len(b) - Len(b) \div 2),
            NMul(a, SubSeq(b, Len(b) \div 2 + 1, Len(b))))

\* the largest digit k with k * y <= r, for r < 10 * y
QDigit(r, y) == Cardinality({k \in 1..9 : NCmp(NMulDigit(y, k), r) <= 0})

(* Long division of x by y # 0.  The digits of x are consumed first (the   *)
(* integer quotient); then, while more digits are wanted and the remainder *)
(* is not 0, zeros are brought down.  A state s of the division holds x:   *)
(* the digits still to consume, q: the quotient's digits, r: the           *)
(* remainder, f: how many of q's digits are fractional.  LongDivDigit      *)
(* finds the next digit k for the running remainder r1, LongDivPut puts it *)
(* down, and LongDivStep is one round, which leaves a finished division    *)
(* as it is.  A division takes at most Len(x) + Len(y) + sig rounds: the   *)
(* first half of them is carried out, then the rest from where it ended.   *)
LongDivPut(s, y, r1, k) ==
  [x |-> IF s.x = <<>> THEN s.x ELSE Tail(s.x),
   r |-> NSub(r1, NMulDigit(y, k)),
   q |-> NStrip(s.q \o <<k>>),
   f |-> IF s.x = <<>> THEN s.f + 1 ELSE s.f]

LongDivDigit(s, y, r1) == LongDivPut(s, y, r1, QDigit(r1, y))

LongDivStep(s, y, sig) ==
  IF s.x = <<>> /\ (s.r = <<>> \/ Len(s.q) >= sig) THEN s
  ELSE LongDivDigit(s, y, NStrip(s.r \o <<IF s.x = <<>> THEN 0 ELSE Head(s.x)>>))

RECURSIVE LongDivSteps(_, _, _, _)
LongDivSteps(s, y, sig, n) ==
  IF n <= 1 THEN LongDivStep(s, y, sig)
  ELSE CHOOSE last \in {LongDivSteps(half, y, sig, n - n \div 2) :
                          half \in {LongDivSteps(s, y, sig, n \div 2)}} : TRUE

LongDiv(x, y, r, q, f, sig) ==
  CHOOSE last \in {LongDivSteps(s, y, sig, Len(x) + Len(y) + sig + 1) :
                    s \in {[x |-> x, r |-> r, q |-> q, f |-> f]}} : TRUE

RECURSIVE NatOf(_)
NatOf(a) == IF a = <<>> THEN 0 ELSE 10 * NatOf(SubSeq(a, 1, Len(a) - 1)) + a[Len(a)]

RECURSIVE DigitsOf(_)
DigitsOf(n) == IF n = 0 THEN <<>> ELSE DigitsOf(n \div 10) \o <<n % 10>>

(***************************************************************************)
(* A Decimal: k is "fin", "nan", "inf" or "sym".  A finite value is        *)
(* s * 0.d1d2... * 10^(e+1): s the sign (1 or -1, kept on zero too), d the *)
(* coefficient's digits without leading or trailing zero (<<>> for zero),  *)
(* e the exponent of the leading digit.  NaN has s = 0.  A "sym" value is  *)
(* the engine's (finite, rounded) result of the operation t on the         *)
(* arguments in t, of sign s (0 when the sign is not determined).          *)
(***************************************************************************)
PRECISION == 20

MaxPowExp == 8

NaN == [k |-> "nan", s |-> 0, d |-> <<>>, e |-> 0, t |-> <<>>]

Infinity(s) == [k |-> "inf", s |-> s, d |-> <<>>, e |-> 0, t |-> <<>>]

Sym(s, t) == [k |-> "sym", s |-> s, d |-> <<>>, e |-> 0, t |-> t]

\* a finite value as stored: sign, digits, exponent of the leading digit
Lit(s, d, e) == [k |-> "fin", s |-> s, d |-> d, e |-> e, t |-> <<>>]

\* how many zeros a digit sequence ends in
NTrail(a) ==
  CHOOSE n \in 0..Len(a) :
    /\ \A i \in (Len(a) - n + 1)..Len(a) : a[i] = 0
    /\ (n = Len(a) \/ a[Len(a) - n] # 0)

\* the value s * a * 10^q for a without leading zero
FinNorm(s, a, q) ==
  IF a = <<>> THEN Lit(s, <<>>, 0)
  ELSE Lit(s, SubSeq(a, 1, Len(a) - NTrail(a)), q + Len(a) - 1)

\* the finite value s * c * 10^q, c a digit sequence
Fin(s, c, q) == FinNorm(s, NStrip(c), q)

\* new Decimal(n) for a JavaScript integer literal n
Dec(n) == Fin(IF n < 0 THEN -1 ELSE 1, DigitsOf(IF n < 0 THEN -n ELSE n), 0)

isZero(x) == x.k = "fin" /\ x.d = <<>>
\* the exponent of the least significant digit
LowExp(x) == x.e - Len(x.d) + 1

\* finalise: round half up (away from zero) to PRECISION significant digits
Round(x) ==
  IF x.k # "fin" \/ Len(x.d) <= PRECISION THEN x
  ELSE Fin(x.s,
           IF x.d[PRECISION + 1] >= 5 THEN NAdd(SubSeq(x.d, 1, PRECISION), <<1>>)
           ELSE SubSeq(x.d, 1, PRECISION),
           x.e - PRECISION + 1)

Dec_neg(x) == IF x.k = "nan" THEN x ELSE [x EXCEPT !.s = -x.s]

Dec_abs(x) == IF x.k = "nan" THEN x ELSE [x EXCEPT !.s = 1]

\* the lower of the lowest exponents of two finite values
MinLow(x, y) == IF LowExp(x) < LowExp(y) THEN LowExp(x) ELSE LowExp(y)

\* the coefficient of x over the lowest exponent common to x and y
Aligned(x, y) == NShift(x.d, LowExp(x) - MinLow(x, y))

\* -1, 0, 1 for finite x, y
FinCmp(x, y) ==
  IF x.d = <<>> /\ y.d = <<>> THEN 0
  ELSE IF x.d = <<>> THEN -y.s
  ELSE IF y.d = <<>> THEN x.s
  ELSE IF x.s # y.s THEN x.s
  ELSE x.s * NCmp(Aligned(x, y), Aligned(y, x))

\* the sign of a value with respect to zero: 1, -1, or 0 for zero
SignOf(x) == IF isZero(x) THEN 0 ELSE x.s

(* cmp: 2 stands for NaN (no order).  A sym value is ordered by its sign   *)
(* against zero and by identity against itself; two different sym values   *)
(* of one sign are compared as the order of their terms is not modelled    *)
(* further (such a comparison does not occur on the paths modelled).       *)
Dec_cmp(x, y) ==
  IF x.k = "nan" \/ y.k = "nan" THEN 2
  ELSE IF x.k = "inf" \/ y.k = "inf"
       THEN (IF x.k = "inf" /\ y.k = "inf"
             THEN (IF x.s = y.s THEN 0 ELSE x.s)
             ELSE IF x.k = "inf" THEN x.s ELSE -y.s)
  ELSE IF x.k = "fin" /\ y.k = "fin" THEN FinCmp(x, y)
  ELSE IF x = y THEN 0
  ELSE IF SignOf(x) # SignOf(y) THEN (IF SignOf(x) < SignOf(y) THEN -1 ELSE 1)
  ELSE 2

Dec_eq(x, y)  == Dec_cmp(x, y) = 0
Dec_lt(x, y)  == Dec_cmp(x, y) = -1
Dec_gt(x, y)  == Dec_cmp(x, y) = 1
Dec_gte(x, y) == Dec_cmp(x, y) \in {0, 1}
Dec_lte(x, y) == Dec_cmp(x, y) \in {-1, 0}

Dec_isInt(x) == x.k = "fin" /\ (x.d = <<>> \/ LowExp(x) >= 0)

\* exact sum of two finite values; a zero sum is +0 (rounding mode HALF_UP)
FinSum(sx, sy, a, b, q) ==
  IF sx = sy THEN Fin(sx, NAdd(a, b), q)
  ELSE IF NCmp(a, b) > 0 THEN Fin(sx, NSub(a, b), q)
  ELSE IF NCmp(a, b) < 0 THEN Fin(sy, NSub(b, a), q)
  ELSE Lit(1, <<>>, 0)

FinAdd(x, y) == FinSum(x.s, y.s, Aligned(x, y), Aligned(y, x), MinLow(x, y))

FinMul(x, y) == Fin(x.s * y.s, NMul(x.d, y.d), LowExp(x) + LowExp(y))

Dec_add(x, y) ==
  IF x.k = "nan" \/ y.k = "nan" THEN NaN
  ELSE IF x.k = "inf" \/ y.k = "inf"
       THEN (IF x.k = "inf" /\ y.k = "inf" /\ x.s # y.s THEN NaN
             ELSE IF x.k = "inf" THEN x ELSE y)
  ELSE IF x.k = "fin" /\ y.k = "fin" THEN Round(FinAdd(x, y))
  ELSE IF isZero(y) THEN x
  ELSE IF isZero(x) THEN y
  ELSE Sym(IF x.s = y.s THEN x.s ELSE 0, <<"add", x, y>>)

Dec_sub(x, y) == Dec_add(x, Dec_neg(y))

Dec_mul(x, y) ==
  IF x.k = "nan" \/ y.k = "nan" THEN NaN
  ELSE IF x.k = "inf" \/ y.k = "inf"
       THEN (IF isZero(x) \/ isZero(y) THEN NaN ELSE Infinity(x.s * y.s))
  ELSE IF x.k = "fin" /\ y.k = "fin" THEN Round(FinMul(x, y))
  ELSE IF isZero(x) \/ isZero(y) THEN Lit(x.s * y.s, <<>>, 0)
  ELSE IF y.k = "fin" /\ y.d = <<1>> /\ y.e = 0 THEN [x EXCEPT !.s = x.s * y.s]
  ELSE IF x.k = "fin" /\ x.d = <<1>> /\ x.e = 0 THEN [y EXCEPT !.s = x.s * y.s]
  ELSE Sym(x.s * y.s, <<"mul", Dec_abs(x), Dec_abs(y)>>)

\* the quotient of two finite nonzero values to PRECISION digits
FinQuot(s, r, q) == Round(Fin(s, r.q, q - r.f))

FinDiv(x, y) ==
  FinQuot(x.s * y.s, LongDiv(x.d, y.d, <<>>, <<>>, 0, PRECISION + 1), LowExp(x) - LowExp(y))

Dec_div(x, y) ==
  IF x.k = "nan" \/ y.k = "nan" THEN NaN
  ELSE IF x.k = "inf" /\ y.k = "inf" THEN NaN
  ELSE IF isZero(x) /\ isZero(y) THEN NaN
  ELSE IF isZero(x) \/ y.k = "inf" THEN Lit(x.s * y.s, <<>>, 0)
  ELSE IF isZero(y) \/ x.k = "inf" THEN Infinity(x.s * y.s)
  ELSE IF x.k = "fin" /\ y.k = "fin" THEN FinDiv(x, y)
  ELSE IF y.k = "fin" /\ y.d = <<1>> /\ y.e = 0 THEN [x EXCEPT !.s = x.s * y.s]
  ELSE Sym(x.s * y.s, <<"div", Dec_abs(x), Dec_abs(y)>>)

\* Decimal.modulo = ROUND_DOWN: the remainder of truncated division, sign of x
Dec_mod(x, y) ==
  IF y.k = "nan" \/ x.k \in {"nan", "inf"} \/ isZero(y) THEN NaN
  ELSE IF y.k = "inf" \/ isZero(x) THEN Round(x)
  ELSE IF x.k = "fin" /\ y.k = "fin"
       THEN Round(Fin(x.s, LongDiv(Aligned(x, y), Aligned(y, x), <<>>, <<>>, 0, 0).r,
                      MinLow(x, y)))
  ELSE Sym(x.s, <<"mod", x, y>>)

Dec_isOdd(y) == Dec_isInt(y) /\ y.d # <<>> /\ LowExp(y) = 0 /\ y.d[Len(y.d)] % 2 = 1

\* the small natural number a finite integer value stands for
SmallNat(y) == NatOf(NShift(y.d, LowExp(y)))

RECURSIVE FinPowNat(_, _)
FinPowNat(x, n) ==
  IF n = 0 THEN Lit(1, <<1>>, 0)
  ELSE LET r == FinPowNat(x, n - 1) IN IF Len(r.d) >= 0 THEN FinMul(r, x) ELSE r

(* pow.  With a NaN, an Infinity or a zero among x and y decimal.js hands  *)
(* the pair to Math.pow.  Otherwise 1^y = 1, an integer y of at most       *)
(* MaxPowExp is raised by multiplication (and a negative one inverted),    *)
(* and (-1)^y for an integer y goes by y's parity; an integer y of more    *)
(* than 17 digits over- or underflows the exponent range for |x| >= 2 or   *)
(* |x| <= 1/2; what is left is a term.                                     *)
Dec_powFin(x, y, sgn, one) ==
  IF one /\ x.s = 1 THEN x
  ELSE IF one /\ Dec_isInt(y) THEN [x EXCEPT !.s = sgn]
  ELSE IF Dec_isInt(y) /\ y.e < 2 /\ SmallNat(y) <= MaxPowExp
       THEN (IF y.s = 1 THEN Round(FinPowNat(x, SmallNat(y)))
             ELSE FinDiv(Lit(1, <<1>>, 0), FinPowNat(x, SmallNat(y))))
  ELSE IF x.s = -1 /\ ~Dec_isInt(y) THEN NaN
  ELSE IF Dec_isInt(y) /\ y.e >= 17 /\ FinCmp(Dec_abs(x), Lit(1, <<2>>, 0)) >= 0
       THEN (IF y.s = 1 THEN Infinity(sgn) ELSE Lit(sgn, <<>>, 0))
  ELSE IF Dec_isInt(y) /\ y.e >= 17 /\ FinCmp(Dec_abs(x), Lit(1, <<5>>, -1)) <= 0
       THEN (IF y.s = 1 THEN Lit(sgn, <<>>, 0) ELSE Infinity(sgn))
  ELSE Sym(sgn, <<"pow", Dec_abs(x), y>>)

Dec_powAny(x, y, sgn, one) ==
  IF isZero(y) THEN Lit(1, <<1>>, 0)
  ELSE IF x.k = "nan" \/ y.k = "nan" THEN NaN
  ELSE IF y.k = "inf"
       THEN (IF one THEN NaN
             ELSE IF (x.k = "inf" \/ (x.k = "fin" /\ x.d # <<>> /\ x.e >= 0)) = (y.s = 1)
                  THEN Infinity(1) ELSE Lit(1, <<>>, 0))
  ELSE IF x.k = "inf" \/ isZero(x)
       THEN (IF (x.k = "inf") = (y.s = 1) THEN Infinity(sgn) ELSE Lit(sgn, <<>>, 0))
  ELSE IF x.k = "sym" \/ y.k = "sym"
       THEN Sym(IF x.s = 1 THEN 1 ELSE 0, <<"pow", x, y>>)
  ELSE Dec_powFin(x, y, sgn, one)

Dec_pow(x, y) ==
  Dec_powAny(x, y, IF x.s = -1 /\ Dec_isOdd(y) THEN -1 ELSE 1,
             x.k = "fin" /\ x.d = <<1>> /\ x.e = 0)

\* the integer square root of n, lo <= root <= hi, by bisection
RECURSIVE ISqrt(_, _, _)
ISqrt(n, lo, hi) ==
  IF lo >= hi THEN lo
  ELSE LET mid == (lo + hi + 1) \div 2
       IN IF mid * mid <= n THEN ISqrt(n, mid, hi) ELSE ISqrt(n, lo, mid - 1)

(* sqrt: exact on the perfect squares of at most 8 digits, a term          *)
(* otherwise (the engine's rounded root).                                  *)
Dec_sqrt(x) ==
  IF x.k = "nan" THEN NaN
  ELSE IF isZero(x) THEN x
  ELSE IF x.s = -1 THEN NaN
  ELSE IF x.k = "inf" THEN x
  ELSE IF x.k = "sym" THEN Sym(1, <<"sqrt", x>>)
  ELSE LET q == LowExp(x)
           c == IF q % 2 = 0 THEN x.d ELSE x.d \o <<0>>
           h == IF q % 2 = 0 THEN q \div 2 ELSE (q - 1) \div 2
           n == IF Len(c) <= 8 THEN NatOf(c) ELSE 0
           r == ISqrt(n, 0, 9999)
       IN IF Len(c) <= 8 /\ r * r = n
          THEN Fin(1, DigitsOf(r), h)
          ELSE Sym(1, <<"sqrt", x>>)

\* pi, pi/2 and e as the engine rounds them to PRECISION digits
Pi == Lit(1, <<3,1,4,1,5,9,2,6,5,3,5,8,9,7,9,3,2,3,8,5>>, 0)

HalfPi == Lit(1, <<1,5,7,0,7,9,6,3,2,6,7,9,4,8,9,6,6,1,9,2>>, 0)

Euler == Lit(1, <<2,7,1,8,2,8,1,8,2,8,4,5,9,0,4,5,2,3,5,4>>, 0)

Dec_ln(x) ==
  IF x.k = "nan" THEN NaN
  ELSE IF isZero(x) THEN Infinity(-1)
  ELSE IF x.s = -1 THEN NaN
  ELSE IF x.k = "inf" THEN x
  ELSE IF x.k = "sym" THEN Sym(0, <<"ln", x>>)
  ELSE IF x.d = <<1>> /\ x.e = 0 THEN Lit(1, <<>>, 0)
  ELSE Sym(IF x.e >= 0 THEN 1 ELSE -1, <<"ln", x>>)

Dec_exp(x) ==
  IF x.k = "nan" THEN NaN
  ELSE IF x.k = "inf" THEN (IF x.s = 1 THEN x ELSE Lit(1, <<>>, 0))
  ELSE IF isZero(x) THEN Lit(1, <<1>>, 0)
  ELSE IF x.k = "fin" /\ x = Lit(1, <<1>>, 0) THEN Euler
  ELSE Sym(1, <<"exp", x>>)

Dec_cos(x) ==
  IF x.k \in {"nan", "inf"} THEN NaN
  ELSE IF isZero(x) THEN Lit(1, <<1>>, 0)
  ELSE Sym(0, <<"cos", x>>)

Dec_sin(x) ==
  IF x.k \in {"nan", "inf"} THEN NaN
  ELSE IF isZero(x) THEN x
  ELSE Sym(0, <<"sin", x>>)

Dec_asin(x) ==
  IF x.k = "nan" THEN NaN
  ELSE IF isZero(x) THEN x
  ELSE IF x.k = "inf" THEN NaN
  ELSE IF x.k = "sym" THEN Sym(x.s, <<"asin", Dec_abs(x)>>)
  ELSE IF FinCmp(Dec_abs(x), Lit(1, <<1>>, 0)) > 0 THEN NaN
  ELSE IF FinCmp(Dec_abs(x), Lit(1, <<1>>, 0)) = 0 THEN [HalfPi EXCEPT !.s = x.s]
  ELSE Sym(x.s, <<"asin", Dec_abs(x)>>)

Dec_acos(x) ==
  IF x.k \in {"nan", "inf"} THEN NaN
  ELSE IF isZero(x) THEN HalfPi
  ELSE IF x.k = "sym" THEN Sym(1, <<"acos", x>>)
  ELSE IF FinCmp(Dec_abs(x), Lit(1, <<1>>, 0)) > 0 THEN NaN
  ELSE IF FinCmp(Dec_abs(x), Lit(1, <<1>>, 0)) = 0 THEN (IF x.s = 1 THEN Lit(1, <<>>, 0) ELSE Pi)
  ELSE Sym(1, <<"acos", x>>)

\* the root r of the sum of squares, when it is not exact, as a term over x and y
Dec_hypotRoot(x, y, r) ==
  IF r.k = "sym" THEN Sym(1, <<"hypot", Dec_abs(x), Dec_abs(y)>>) ELSE Round(r)

\* Decimal.hypot(x, y): Infinity beats NaN; the squares are summed unrounded
Dec_hypot(x, y) ==
  IF x.k = "inf" \/ (x.k # "nan" /\ y.k = "inf") THEN Infinity(1)
  ELSE IF x.k = "nan" \/ y.k = "nan" THEN NaN
  ELSE IF x.k = "sym" \/ y.k = "sym"
       THEN (IF isZero(y) THEN Dec_abs(x) ELSE IF isZero(x) THEN Dec_abs(y)
             ELSE Sym(1, <<"hypot", Dec_abs(x), Dec_abs(y)>>))
  ELSE Dec_hypotRoot(x, y, Dec_sqrt(FinAdd(FinMul(x, x), FinMul(y, y))))

\* Decimal.atan2(y, x), exact on the axes
Dec_atan2(y, x) ==
  IF y.k = "nan" \/ x.k = "nan" THEN NaN
  ELSE IF isZero(y) /\ (x.s = 1) THEN y
  ELSE IF isZero(y) THEN [Pi EXCEPT !.s = y.s]
  ELSE IF isZero(x) THEN [HalfPi EXCEPT !.s = y.s]
  ELSE Sym(y.s, <<"atan2", Dec_abs(y), x>>)

DigitChar == <<"0", "1", "2", "3", "4", "5", "6", "7", "8", "9">>

RECURSIVE DigitString(_)
DigitString(a) == IF a = <<>> THEN "" ELSE DigitChar[Head(a) + 1] \o DigitString(Tail(a))

\* decimal.js defaults: exponential notation at or below 1e-7 and from 1e+21
toExpNeg == -7

toExpPos == 21

\* finiteToString / nonFiniteToString: the digits of |x|
AbsString(x) ==
  IF x.k = "nan" THEN "NaN"
  ELSE IF x.k = "inf" THEN "Infinity"
  ELSE IF x.k = "sym" THEN "?"
  ELSE IF x.d = <<>> THEN "0"
  ELSE IF x.e <= toExpNeg \/ x.e >= toExpPos
       THEN DigitString(<<Head(x.d)>>)
            \o (IF Len(x.d) > 1 THEN "." \o DigitString(Tail(x.d)) ELSE "")
            \o (IF x.e < 0 THEN "e-" \o DigitString(DigitsOf(-x.e))
                ELSE "e+" \o DigitString(DigitsOf(x.e)))
  ELSE IF x.e < 0 THEN "0." \o DigitString(Zeros(-x.e - 1)) \o DigitString(x.d)
  ELSE IF Len(x.d) <= x.e + 1 THEN DigitString(x.d \o Zeros(x.e + 1 - Len(x.d)))
  ELSE DigitString(SubSeq(x.d, 1, x.e + 1)) \o "."
       \o DigitString(SubSeq(x.d, x.e + 2, Len(x.d)))

\* Decimal.prototype.toString: no minus sign on a negative zero
Dec_toString(x) ==
  IF x.s = -1 /\ ~isZero(x) THEN "-" \o AbsString(x) ELSE AbsString(x)

\* Decimal.prototype.valueOf, which string concatenation (x + 'i') calls
Dec_valueOf(x) == IF x.s = -1 THEN "-" \o AbsString(x) ELSE AbsString(x)

(***************************************************************************)
(* src/constants.js                                                        *)
(***************************************************************************)
ZERO == Lit(1, <<>>, 0)

ONE_HALF == Lit(1, <<5>>, -1)

NEG_ONE == Lit(-1, <<1>>, 0)

ONE == Lit(1, <<1>>, 0)

TWO == Lit(1, <<2>>, 0)

THREE == Lit(1, <<3>>, 0)

FOUR == Lit(1, <<4>>, 0)

TEN == Lit(1, <<1>>, 1)

PI_OVER_TWO == Dec_acos(ZERO)

E == Dec_exp(ONE)

(***************************************************************************)
(* src/complex.js: class Complex, fields re and im.  A call's outcome is   *)
(* a value or a raised error; Raise carries a NaN pair only to keep one    *)
(* record shape.                                                           *)
(***************************************************************************)
Complex(re, im) == [re |-> re, im |-> im]

Ok(v) == [err |-> "none", v |-> v]

Raise(e) == [err |-> e, v |-> Complex(NaN, NaN)]

\* whether a JavaScript value has the fields of a complex.js Complex
HasReIm(v) == "re" \in DOMAIN v

I == Complex(ZERO, ONE)

NEG_I == Complex(ZERO, NEG_ONE)

eq(this, other) == Dec_eq(this.re, other.re) /\ Dec_eq(this.im, other.im)

add(this, other) == Complex(Dec_add(this.re, other.re), Dec_add(this.im, other.im))

\* a faulty sub: the imaginary parts are added
sub_addsImaginary(this, other) ==
  Complex(Dec_sub(this.re, other.re), Dec_add(this.im, other.im))

sub(this, other) == Complex(Dec_sub(this.re, other.re), Dec_sub(this.im, other.im))

mul(this, other) ==
  Complex(Dec_sub(Dec_mul(this.re, other.re), Dec_mul(this.im, other.im)),
          Dec_add(Dec_mul(this.re, other.im), Dec_mul(this.im, other.re)))

\* a faulty div: a zero denominatorSum is intercepted and gives (0, 0)
div_guarded(this, other, denominatorSum) ==
  IF isZero(denominatorSum) THEN Complex(ZERO, ZERO)
  ELSE Complex(Dec_div(Dec_add(Dec_mul(this.re, other.re), Dec_mul(this.im, other.im)),
                       denominatorSum),
               Dec_div(Dec_sub(Dec_mul(this.im, other.re), Dec_mul(this.re, other.im)),
                       denominatorSum))

\* the return statement of div, given its constant denominatorSum
divReturn(this, other, denominatorSum) ==
  Complex(Dec_div(Dec_add(Dec_mul(this.re, other.re), Dec_mul(this.im, other.im)),
                  denominatorSum),
          Dec_div(Dec_sub(Dec_mul(this.im, other.re), Dec_mul(this.re, other.im)),
                  denominatorSum))

div(this, other) ==
  divReturn(this, other, Dec_add(Dec_pow(other.re, TWO), Dec_pow(other.im, TWO)))

\* a faulty recip: the imaginary part keeps its sign
recip_keepsSign(this, denominatorSum) ==
  Complex(Dec_div(this.re, denominatorSum), Dec_div(this.im, denominatorSum))

\* the return statement of recip, given its constant denominatorSum
recipReturn(this, denominatorSum) ==
  Complex(Dec_div(this.re, denominatorSum), Dec_div(Dec_neg(this.im), denominatorSum))

recip(this) == recipReturn(this, Dec_add(Dec_pow(this.re, TWO), Dec_pow(this.im, TWO)))

mod(this) == Dec_hypot(this.re, this.im)

arg(this) == Dec_atan2(this.im, this.re)

(* pow: which return statement is taken.  1..4 are the four returns of the *)
(* imaginary-base, integer-exponent test in the order of the source; 0 is  *)
(* the general formula after it.                                           *)
powBranch(this, other) ==
  IF Dec_eq(this.re, ZERO) /\ Dec_eq(other.im, ZERO) /\ Dec_isInt(other.re)
  THEN IF Dec_eq(Dec_mod(other.re, FOUR), ZERO) THEN 1
       ELSE IF Dec_eq(Dec_mod(Dec_add(other.re, ONE), FOUR), ZERO) THEN 2
       ELSE IF Dec_eq(Dec_mod(other.re, TWO), ZERO) THEN 3
       ELSE IF Dec_eq(Dec_mod(Dec_add(other.re, THREE), FOUR), ZERO) THEN 4
       ELSE 0
  ELSE 0

\* the general formula, in three steps: its return statement given the
\* constants leftFactor and ratio; these given r and cArg; r and cArg
powCis(leftFactor, ratio) ==
  Complex(Dec_mul(Dec_cos(ratio), leftFactor), Dec_mul(Dec_sin(ratio), leftFactor))

powPolar(other, r, cArg) ==
  powCis(Dec_mul(Dec_pow(r, other.re), Dec_pow(E, Dec_neg(Dec_mul(other.im, cArg)))),
         Dec_add(Dec_mul(other.re, cArg),
                 Dec_div(Dec_mul(other.im, Dec_ln(Dec_pow(r, TWO))), TWO)))

powGeneral(this, other) == powPolar(other, mod(this), arg(this))

\* a faulty powFast: the second and the fourth return exchanged
powFast_exchanged(b, p) ==
  IF b = 1 THEN Complex(p, ZERO)
  ELSE IF b = 2 THEN Complex(ZERO, p)
  ELSE IF b = 3 THEN Complex(Dec_mul(NEG_ONE, p), ZERO)
  ELSE Complex(ZERO, Dec_mul(NEG_ONE, p))

\* the four returns of the test, given the branch b and the constant pow
powFast(b, p) ==
  IF b = 1 THEN Complex(p, ZERO)
  ELSE IF b = 2 THEN Complex(ZERO, Dec_mul(NEG_ONE, p))
  ELSE IF b = 3 THEN Complex(Dec_mul(NEG_ONE, p), ZERO)
  ELSE Complex(ZERO, p)

pow(this, other) ==
  IF powBranch(this, other) = 0 THEN powGeneral(this, other)
  ELSE powFast(powBranch(this, other), Dec_pow(this.im, other.re))

\* sqrt: which branch is taken: "nonneg", "neg" (real axis) or "pow"
sqrtBranch(this) ==
  IF Dec_eq(this.im, ZERO)
  THEN (IF Dec_gte(this.re, ZERO) THEN "nonneg" ELSE "neg")
  ELSE "pow"

\* a faulty sqrt: every input is delegated to pow
sqrt_alwaysPow(this) == pow(this, Complex(ONE_HALF, ZERO))

sqrt(this) ==
  IF Dec_eq(this.im, ZERO)
  THEN IF Dec_gte(this.re, ZERO)
       THEN Complex(Dec_sqrt(this.re), ZERO)
       ELSE Complex(ZERO, Dec_sqrt(Dec_abs(this.re)))
  ELSE pow(this, Complex(ONE_HALF, ZERO))

ln(this) == Complex(Dec_ln(mod(this)), arg(this))

\* asin, up to the sign assignment: result as it is constructed, given the
\* constants a and b; these given the two roots; these given the squares
asinOfAB(a, b) ==
  Complex(Dec_asin(a), Dec_ln(Dec_add(b, Dec_sqrt(Dec_sub(Dec_pow(b, TWO), ONE)))))

asinOfRoots(leftSquared, rightSquared) ==
  asinOfAB(Dec_div(Dec_sub(leftSquared, rightSquared), TWO),
           Dec_div(Dec_add(leftSquared, rightSquared), TWO))

asinOfSquares(rePositive, reNegative, imSquared) ==
  asinOfRoots(Dec_sqrt(Dec_add(rePositive, imSquared)),
              Dec_sqrt(Dec_add(reNegative, imSquared)))

asinResult(this) ==
  asinOfSquares(Dec_pow(Dec_add(ONE, this.re), TWO), Dec_pow(Dec_sub(ONE, this.re), TWO),
                Dec_pow(this.im, TWO))

\* the condition under which asin sets result.im.s = -1
asinNegates(this) ==
  Dec_lt(this.im, ZERO) \/ (Dec_gt(this.re, ZERO) /\ Dec_lte(this.im, ZERO))

(* The static members of the class Complex of src/complex.js: it declares  *)
(* none, so Complex.divide evaluates to undefined there.                   *)
StaticMembers == {}

\* log calls the static Complex.divide; calling undefined raises TypeError
log(this, n) ==
  IF "divide" \in StaticMembers THEN Ok(div(ln(this), ln(n))) ELSE Raise("TypeError")

lerp(this, other, t) ==
  LET ratio == Dec_sub(ONE, t)
  IN Complex(Dec_add(Dec_mul(ratio, this.re), Dec_mul(t, other.re)),
             Dec_add(Dec_mul(ratio, this.im), Dec_mul(t, other.im)))

toString(this) ==
  IF Dec_eq(this.im, ZERO) THEN Dec_toString(this.re)
  ELSE IF Dec_eq(this.re, ZERO) THEN Dec_valueOf(this.im) \o "i"
  ELSE IF Dec_lt(this.im, ZERO)
       THEN Dec_toString(this.re) \o " - " \o Dec_valueOf(Dec_abs(this.im)) \o "i"
       ELSE Dec_toString(this.re) \o " + " \o Dec_valueOf(this.im) \o "i"

(***************************************************************************)
(* src/unnamed/part_001: the static form of the class, fields real and     *)
(* imaginary, constants of src/unnamed/part_002.  Its free names mJS (a    *)
(* math.js instance over BigNumber) and ln, cosh, sinh, atan2 are taken to *)
(* be bound to the same engine, at the same precision.                     *)
(***************************************************************************)
\* part_002: Decimal.acos(-1).div(2)
PI_OVER_TWO_1 == Dec_div(Dec_acos(NEG_ONE), TWO)

\* new Complex(real, imaginary): mJS.bignumber keeps a BigNumber as it is
Complex_1(real, imaginary) == [real |-> real, imaginary |-> imaginary]

Ok_1(v) == [err |-> "none", v |-> v]

\* a faulty convertToComplex: a bare real becomes the imaginary part
convertToComplex_imaginary(v) == IF "real" \in DOMAIN v THEN v ELSE Complex_1(ZERO, v)

convertToComplex(v) == IF "real" \in DOMAIN v THEN v ELSE Complex_1(v, ZERO)

Complex_equals(c1, c2) ==
  Dec_eq(c1.real, c2.real) /\ Dec_eq(c1.imaginary, c2.imaginary)

\* the tolerance '1e-6' of approxEquals
Tolerance == Fin(1, <<1>>, -6)

Complex_approxEquals(c1, c2) ==
  /\ Dec_lt(Dec_abs(Dec_sub(c1.real, c2.real)), Tolerance)
  /\ Dec_lt(Dec_abs(Dec_sub(c1.imaginary, c2.imaginary)), Tolerance)

Complex_add(c1, c2) ==
  LET a == convertToComplex(c1)
      b == convertToComplex(c2)
  IN Complex_1(Dec_add(a.real, b.real), Dec_add(a.imaginary, b.imaginary))

Complex_subtract(c1, c2) ==
  LET a == convertToComplex(c1)
      b == convertToComplex(c2)
  IN Complex_1(Dec_sub(a.real, b.real), Dec_sub(a.imaginary, b.imaginary))

Complex_multiply(c1, c2) ==
  LET a == convertToComplex(c1)
      b == convertToComplex(c2)
      real == Dec_add(Dec_neg(Dec_mul(a.imaginary, b.imaginary)), Dec_mul(a.real, b.real))
      imaginary == Dec_add(Dec_mul(a.imaginary, b.real), Dec_mul(a.real, b.imaginary))
  IN Complex_1(real, imaginary)

\* divide after the two conversions, given its constant denominatorSum
divideReturn(a, b, denominatorSum) ==
  Complex_1(Dec_div(Dec_add(Dec_mul(a.real, b.real), Dec_mul(a.imaginary, b.imaginary)),
                    denominatorSum),
            Dec_div(Dec_sub(Dec_mul(a.imaginary, b.real), Dec_mul(a.real, b.imaginary)),
                    denominatorSum))

divideConverted(a, b) ==
  divideReturn(a, b, Dec_add(Dec_pow(b.real, TWO), Dec_pow(b.imaginary, TWO)))

Complex_divide(c1, c2) == divideConverted(convertToComplex(c1), convertToComplex(c2))

mod_1(this) == Dec_hypot(this.real, this.imaginary)

arg_1(this) == Dec_atan2(this.imaginary, this.real)

exponentBranch(c0, p0) ==
  LET c == convertToComplex(c0)
      p == convertToComplex(p0)
  IN IF Dec_eq(c.real, ZERO) /\ Dec_eq(p.imaginary, ZERO) /\ Dec_isInt(p.real)
     THEN IF Dec_eq(Dec_mod(p.real, FOUR), ZERO) THEN 1
          ELSE IF Dec_eq(Dec_mod(Dec_add(p.real, ONE), FOUR), ZERO) THEN 2
          ELSE IF Dec_eq(Dec_mod(p.real, TWO), ZERO) THEN 3
          ELSE IF Dec_eq(Dec_mod(Dec_add(p.real, THREE), FOUR), ZERO) THEN 4
          ELSE 0
     ELSE 0

exponentCis(leftFactor, ratio) ==
  Complex_1(Dec_mul(Dec_cos(ratio), leftFactor), Dec_mul(Dec_sin(ratio), leftFactor))

exponentPolar(p, r, cArg) ==
  exponentCis(Dec_mul(Dec_pow(r, p.real), Dec_pow(E, Dec_neg(Dec_mul(p.imaginary, cArg)))),
              Dec_add(Dec_mul(p.real, cArg),
                      Dec_div(Dec_mul(p.imaginary, Dec_ln(Dec_pow(r, TWO))), TWO)))

exponentGeneral(c, p) == exponentPolar(p, mod_1(c), arg_1(c))

exponentFast(b, pw) ==
  IF b = 1 THEN Complex_1(pw, ZERO)
  ELSE IF b = 2 THEN Complex_1(ZERO, Dec_mul(NEG_ONE, pw))
  ELSE IF b = 3 THEN Complex_1(Dec_mul(NEG_ONE, pw), ZERO)
  ELSE Complex_1(ZERO, pw)

exponentConverted(c, p) ==
  IF exponentBranch(c, p) = 0 THEN exponentGeneral(c, p)
  ELSE exponentFast(exponentBranch(c, p), Dec_pow(c.imaginary, p.real))

Complex_exponent(c0, p0) == exponentConverted(convertToComplex(c0), convertToComplex(p0))

Complex_sqrtBranch(c0) ==
  LET c == convertToComplex(c0)
  IN IF Dec_eq(c.imaginary, ZERO)
     THEN (IF Dec_gte(c.real, ZERO) THEN "nonneg" ELSE "neg")
     ELSE "pow"

Complex_sqrt(c0) ==
  LET c == convertToComplex(c0)
  IN IF Dec_eq(c.imaginary, ZERO)
     THEN IF Dec_gte(c.real, ZERO)
          THEN Complex_1(Dec_sqrt(c.real), ZERO)
          ELSE Complex_1(ZERO, Dec_sqrt(Dec_abs(c.real)))
     ELSE Complex_exponent(c, ONE_HALF)

Complex_ln(c0) ==
  LET c == convertToComplex(c0)
  IN Complex_1(Dec_ln(mod_1(c)), arg_1(c))

Complex_log(c0, b0) ==
  LET c == convertToComplex(c0)
      b == convertToComplex(b0)
  IN Complex_divide(Complex_ln(c), Complex_ln(b))

Complex_lerp(c10, c20, t) ==
  LET c1 == convertToComplex(c10)
      c2 == convertToComplex(c20)
      ratio == Dec_sub(ONE, t)
  IN Complex_1(Dec_add(Dec_mul(ratio, c1.real), Dec_mul(t, c2.real)),
               Dec_add(Dec_mul(ratio, c1.imaginary), Dec_mul(t, c2.imaginary)))

toString_1(this) ==
  IF Dec_eq(this.imaginary, ZERO) THEN Dec_toString(this.real)
  ELSE LET str == IF Dec_eq(this.imaginary, NEG_ONE) THEN "-i"
                  ELSE IF ~Dec_eq(this.imaginary, ONE)
                       THEN Dec_valueOf(this.imaginary) \o "i"
                       ELSE "i"
       IN IF Dec_gt(this.real, ZERO) THEN str \o "+" \o Dec_valueOf(this.real)
          ELSE IF Dec_lt(this.real, ZERO)
               THEN str \o "-" \o Dec_valueOf(Dec_abs(this.real))
               ELSE str

(***************************************************************************)
(* Objects.  A Decimal is an object with a writable sign field s; the      *)
(* heap h keeps the Decimals as cells, the Complex objects as pairs of     *)
(* cells, and the values of the expression under evaluation on a stack of  *)
(* references: [obj |-> n] to a Complex, [cell |-> n] to a bare Decimal.   *)
(* A Decimal method returns a new Decimal: such a value is passed on as    *)
(* the value itself and gets its cell when a Complex is constructed of it. *)
(* h.wrote collects the cells whose s is assigned; h.was and h.had hold    *)
(* the cells and the number of objects at the start of the current call.   *)
(***************************************************************************)
\* the exported constants of part_002, in the order of its lines
ConstantCells ==
  <<NaN, Infinity(1), ZERO, ONE_HALF, NEG_ONE, ONE, TWO, THREE, FOUR, TEN, PI_OVER_TWO_1, E>>

ConstantNames ==
  <<"NAN", "INFINITY", "ZERO", "ONE_HALF", "NEG_ONE", "ONE", "TWO", "THREE", "FOUR",
    "TEN", "PI_OVER_TWO", "E">>

\* the reference an imported name of a constant evaluates to
Cell(n) == [cell |-> CHOOSE c \in 1..Len(ConstantNames) : ConstantNames[c] = n]

IsCell(r) == "cell" \in DOMAIN r

top(h) == h.stack[Len(h.stack)]

under(h) == h.stack[Len(h.stack) - 1]

push(h, r) == [h EXCEPT !.stack = Append(@, r)]

pop(h, n) == [h EXCEPT !.stack = SubSeq(@, 1, Len(@) - n)]

\* a static member or module constant: the object bound to the name n
named(h, n) ==
  [h EXCEPT !.names = [m \in DOMAIN @ \cup {n} |-> IF m = n THEN top(h).obj ELSE @[m]]]

nameRef(h, n) == [obj |-> h.names[n]]

\* the components of a Complex, read through its references
value(h, r) == Complex(h.cells[h.objs[r.obj].re], h.cells[h.objs[r.obj].im])

Static(c) == Complex_1(c.re, c.im)

\* the field s of a Decimal: 1 or -1, NaN (here 2) for NaN
signField(v) == IF v.k = "nan" THEN 2 ELSE v.s

(* x.s = s.  A Decimal is NaN when its s is NaN; a NaN given the sign 1 or *)
(* -1 has no digits and a sign, which is how the engine holds an Infinity. *)
withSign(v, s) ==
  IF s = 2 THEN NaN ELSE IF v.k = "nan" THEN Infinity(s) ELSE [v EXCEPT !.s = s]

setSign(h, c, s) == [h EXCEPT !.cells[c] = withSign(@, s), !.wrote = @ \cup {c}]

\* src/complex.js, new Complex(re, im): new Decimal(re) makes a copy
constructor(h, re, im) ==
  [h EXCEPT !.cells = @ \o <<re, im>>,
            !.objs = Append(@, [form |-> "instance", re |-> Len(h.cells) + 1,
                                im |-> Len(h.cells) + 2]),
            !.stack = Append(@, [obj |-> Len(h.objs) + 1])]

constructValue(h, v) == constructor(h, v.re, v.im)

\* a method of one operand, and of two, that returns new Complex(...)
call(F(_), h) == constructValue(pop(h, 1), F(value(h, top(h))))

call2(F(_, _), h) == constructValue(pop(h, 2), F(value(h, under(h)), value(h, top(h))))

\* asin, lines 303-305: the sign assignment on the result r
asinWrite(r, negates) ==
  IF negates THEN setSign(r, r.objs[top(r).obj].im, -1) ELSE r

asin_h(h) == asinWrite(call(asinResult, h), asinNegates(value(h, top(h))))

\* a faulty asinh: the sign assignments go to the components of the operand x
asinhWrites_operand(r, x) ==
  setSign(setSign(r, r.objs[x.obj].re,
                  IF Dec_eq(value(r, x).re, ZERO) /\ Dec_lt(value(r, x).im, ZERO)
                  THEN -1 ELSE signField(value(r, x).re)),
          r.objs[x.obj].im, -signField(value(r, x).im))

\* asinh, lines 412-418: the sign assignments on the result r, for the operand x
asinhWrites(r, x) ==
  setSign(setSign(r, r.objs[top(r).obj].re,
                  IF Dec_eq(value(r, x).re, ZERO) /\ Dec_lt(value(r, x).im, ZERO)
                  THEN -1 ELSE signField(value(r, x).re)),
          r.objs[top(r).obj].im, signField(value(r, x).im))

(* src/unnamed/part_001, new Complex(real, imaginary): mJS.bignumber keeps *)
(* a Decimal it is given, so a component given as a reference is shared.   *)
constructor_1(h, real, imaginary) ==
  [h EXCEPT !.cells = @ \o (IF IsCell(real) THEN <<>> ELSE <<real>>)
                        \o (IF IsCell(imaginary) THEN <<>> ELSE <<imaginary>>),
            !.objs = Append(@, [form |-> "static",
                                re |-> IF IsCell(real) THEN real.cell ELSE Len(h.cells) + 1,
                                im |-> IF IsCell(imaginary) THEN imaginary.cell
                                       ELSE IF IsCell(real) THEN Len(h.cells) + 1
                                       ELSE Len(h.cells) + 2]),
            !.stack = Append(@, [obj |-> Len(h.objs) + 1])]

constructValue_1(h, v) == constructor_1(h, v.real, v.imaginary)

\* c = Complex.convertToComplex(c), for c on top of the stack
convertTop(h) ==
  IF IsCell(top(h)) THEN constructor_1(pop(h, 1), top(h), Cell("ZERO")) ELSE h

convertBoth(h) == convertTop(push(convertTop(pop(h, 1)), top(h)))

\* a static method of two operands that returns new Complex(real, imaginary)
staticConverted(F(_, _), h) ==
  constructValue_1(pop(h, 2), F(Static(value(h, under(h))), Static(value(h, top(h)))))

static2(F(_, _), h) == staticConverted(F, convertBoth(h))

Complex_asinConverted(h) ==
  asinWrite(constructValue_1(pop(h, 1), Static(asinResult(value(h, top(h))))),
            asinNegates(value(h, top(h))))

Complex_asin_h(h) == Complex_asinConverted(convertTop(h))

\* new Complex(c.real.div(sum), c.imaginary.div(sum).neg())
inverseOf(c, sum) == Complex_1(Dec_div(c.real, sum), Dec_neg(Dec_div(c.imaginary, sum)))

\* asech, lines 328-330: the sign assignment on the result r
asechWrite(r, positive) ==
  IF positive THEN setSign(r, r.objs[top(r).obj].im, 1) ELSE r

(***************************************************************************)
(* The inverse functions by value.  The sign assignments go to Decimals of *)
(* the result alone, so a call is a function of the values of its operand. *)
(***************************************************************************)
\* asin, lines 303-305: result.im.s = -1 under the condition negates
asinSigned(result, negates) ==
  IF negates THEN Complex(result.re, withSign(result.im, -1)) ELSE result

asin(this) == asinSigned(asinResult(this), asinNegates(this))

\* asinh, lines 412-418: the sign assignments on result
asinhSigned(result, this) ==
  Complex(withSign(result.re, IF Dec_eq(this.re, ZERO) /\ Dec_lt(this.im, ZERO)
                              THEN -1 ELSE signField(this.re)),
          withSign(result.im, signField(this.im)))

asinh(this) == asinhSigned(mul(asin(mul(this, I)), NEG_I), this)

\* new Complex(PI_OVER_TWO).sub(this.asin()); im defaults to ZERO
acos(this) == sub(Complex(PI_OVER_TWO, ZERO), asin(this))

acosh(this) ==
  mul(div(sqrt(sub(this, Complex(ONE, ZERO))), sqrt(sub(Complex(ONE, ZERO), this))),
      acos(this))

atanOfSquares(this, reSquared, imSquared) ==
  Complex(Dec_div(Dec_atan2(Dec_mul(this.re, TWO),
                            Dec_sub(Dec_sub(ONE, reSquared), imSquared)), TWO),
          Dec_div(Dec_ln(Dec_div(Dec_add(reSquared, Dec_pow(Dec_add(ONE, this.im), TWO)),
                                 Dec_add(reSquared, Dec_pow(Dec_sub(ONE, this.im), TWO)))),
                  FOUR))

atan(this) == atanOfSquares(this, Dec_pow(this.re, TWO), Dec_pow(this.im, TWO))

atanh(this) == mul(atan(mul(this, I)), NEG_I)

acsch(this) == asinh(recip(this))

asech(this) == acosh(recip(this))

acoth(this) == atanh(recip(this))

(* src/unnamed/part_001.  sqrt, add, subtract, divide, pow, asin of mJS    *)
(* and the free names ln and atan2 are the engine's.                       *)
Instance(c) == Complex(c.real, c.imaginary)

Complex_asinOf(c) == Static(asinSigned(asinResult(Instance(c)), asinNegates(Instance(c))))

Complex_asin(c0) == Complex_asinOf(convertToComplex(c0))

Complex_asinhOf(c) ==
  Static(asinhSigned(
    Instance(Complex_multiply(Complex_1(ZERO, NEG_ONE),
                              Complex_asin(Complex_multiply(Complex_1(ZERO, ONE), c)))),
    Instance(c)))

Complex_asinh(c0) == Complex_asinhOf(convertToComplex(c0))

Complex_acos(c) == Complex_subtract(PI_OVER_TWO_1, Complex_asin(c))

Complex_acosh(c) ==
  Complex_multiply(
    Complex_divide(Complex_exponent(Complex_subtract(c, ONE), ONE_HALF),
                   Complex_exponent(Complex_subtract(ONE, c), ONE_HALF)),
    Complex_acos(c))

Complex_atan(c0) ==
  Static(atanOfSquares(Instance(convertToComplex(c0)),
                       Dec_pow(convertToComplex(c0).real, TWO),
                       Dec_pow(convertToComplex(c0).imaginary, TWO)))

Complex_atanh(c) ==
  Complex_multiply(Complex_1(ZERO, NEG_ONE),
                   Complex_atan(Complex_multiply(Complex_1(ZERO, ONE), c)))

(* acsch, line 310: a Complex has no property INFINITY, so c.INFINITY is   *)
(* undefined and the result is new Complex(undefined, ZERO).  What         *)
(* mJS.bignumber makes of undefined is the library's: it rejects the       *)
(* argument with a TypeError, or takes it as absent and gives 0.           *)
BignumberOfUndefined == {Raise("TypeError"), Ok_1(Complex_1(ZERO, ZERO))}

\* acsch on the real axis, lines 309-311
acschOfReal(c) ==
  IF Dec_eq(c.real, ZERO) THEN BignumberOfUndefined
  ELSE {Ok_1(Complex_1(Dec_ln(Dec_add(c.real, Dec_sqrt(Dec_add(Dec_pow(c.real, TWO), ONE)))),
                       ZERO))}

\* the outcomes of Complex.acsch(c), c converted
acschConverted(c) ==
  IF Dec_eq(c.imaginary, ZERO) THEN acschOfReal(c)
  ELSE {Ok_1(Complex_asinh(inverseOf(c, Dec_add(Dec_pow(c.real, TWO),
                                                Dec_pow(c.imaginary, TWO)))))}

Complex_acsch(c0) == acschConverted(convertToComplex(c0))

\* asech, lines 328-330: result.imaginary.s = 1
asechSigned(result, positive) ==
  IF positive THEN Complex_1(result.real, withSign(result.imaginary, 1)) ELSE result

asechConverted(c) ==
  IF Dec_eq(c.real, ZERO) /\ Dec_eq(c.imaginary, ZERO)
  THEN Complex_1(Infinity(1), Infinity(1))
  ELSE asechSigned(Complex_acosh(inverseOf(c, Dec_add(Dec_pow(c.real, TWO),
                                                      Dec_pow(c.imaginary, TWO)))),
                   Dec_lt(c.real, ZERO) /\ Dec_eq(c.imaginary, ZERO))

Complex_asech(c0) == asechConverted(convertToComplex(c0))

acothConverted(c) ==
  IF Dec_eq(c.real, ZERO) /\ Dec_eq(c.imaginary, ZERO)
  THEN Complex_1(ZERO, PI_OVER_TWO_1)
  ELSE Complex_atanh(inverseOf(c, Dec_add(Dec_pow(c.real, TWO),
                                          Dec_pow(c.imaginary, TWO))))

Complex_acoth(c0) == acothConverted(convertToComplex(c0))

(* The heap once the modules are loaded.  The exported Decimals of         *)
(* part_002 are the first cells.  The static members i, neg_i, zero, nan   *)
(* and infinity of part_001 are constructed of exported Decimals, which    *)
(* they keep; I and NEG_I of src/complex.js get copies, in new cells.      *)
StaticMembers_1 ==
  <<[name |-> "i", real |-> "ZERO", imaginary |-> "ONE"],
    [name |-> "neg_i", real |-> "ZERO", imaginary |-> "NEG_ONE"],
    [name |-> "zero", real |-> "ZERO", imaginary |-> "ZERO"],
    [name |-> "nan", real |-> "NAN", imaginary |-> "NAN"],
    [name |-> "infinity", real |-> "INFINITY", imaginary |-> "INFINITY"]>>

ModuleConstants ==
  <<[name |-> "I", re |-> ZERO, im |-> ONE], [name |-> "NEG_I", re |-> ZERO, im |-> NEG_ONE]>>

LoadedNames ==
  [n \in 1..(Len(StaticMembers_1) + Len(ModuleConstants)) |->
     IF n <= Len(StaticMembers_1) THEN StaticMembers_1[n].name
     ELSE ModuleConstants[n - Len(StaticMembers_1)].name]

LoadedCells(constants) ==
  constants \o <<ModuleConstants[1].re, ModuleConstants[1].im,
                 ModuleConstants[2].re, ModuleConstants[2].im>>

LoadedObjects ==
  [n \in 1..Len(StaticMembers_1) |->
     [form |-> "static", re |-> Cell(StaticMembers_1[n].real).cell,
      im |-> Cell(StaticMembers_1[n].imaginary).cell]]
    \o [n \in 1..Len(ModuleConstants) |->
          [form |-> "instance", re |-> Len(ConstantNames) + 2 * n - 1,
           im |-> Len(ConstantNames) + 2 * n]]

LoadedHeap ==
  [cells |-> LoadedCells(ConstantCells),
   objs |-> LoadedObjects,
   stack |-> <<>>,
   names |-> [m \in {LoadedNames[n] : n \in DOMAIN LoadedNames} |->
                CHOOSE n \in DOMAIN LoadedNames : LoadedNames[n] = m],
   wrote |-> {}, was |-> <<>>, had |-> 0, calls |-> 0]


\* the caller constructs its operand, in either form, of the reals re and im
CallerHeap(re, im) ==
  named(constructor_1(named(constructor(LoadedHeap, re, im), "instance"), re, im), "static")

\* the heap between two calls: no expression is under evaluation
Settled(h) ==
  [h EXCEPT !.stack = <<>>, !.wrote = {}, !.was = h.cells, !.had = Len(h.objs)]

(***************************************************************************)
(* The calls.  A caller constructs a first operand from two reals, then    *)
(* makes one call on it; the second operand is a Complex or a bare real.   *)
(***************************************************************************)
MaxInt == 2

MaxExp == 6

\* a real of slightly more than PRECISION digits below 1, and 21-digit integers
Tiny == Fin(1, <<1>>, -25)

Huge(r) == Fin(1, <<1>> \o Zeros(19) \o <<r>>, 0)

Ints == {Dec(n) : n \in -MaxInt..MaxInt}

Reals == Ints \cup {ONE_HALF, Tiny, NaN, Infinity(1), Infinity(-1)}

SecondReals == {Dec(0), Dec(1), Dec(-2), NaN, Infinity(1)}

Exponents ==
  {Dec(n) : n \in -MaxExp..MaxExp} \cup {Huge(1), Huge(2), Huge(3), Huge(4), Huge(5), ONE_HALF, NaN}

NoArg == <<>>

VARIABLES pc, a, op, x, y, t, out, str, path, heap

vars == <<pc, a, op, x, y, t, out, str, path, heap>>

\* the first operands: every pair of Reals, and a few pairs for the wide calls
Firsts == {Complex(re, im) : re \in Reals, im \in Reals}

FewReals == {Dec(0), Dec(-1), Dec(2), NaN}

FewFirsts == {Complex(re, im) : re \in FewReals, im \in FewReals}

Start(S) ==
  \E c \in S :
    /\ pc = "ready"
    /\ a = c
    /\ op = "none"
    /\ x = NoArg
    /\ y = NoArg
    /\ t = ZERO
    /\ out = Ok(Complex(ZERO, ZERO))
    /\ str = ""
    /\ path = ""
    /\ heap = Settled(CallerHeap(c.re, c.im))

Return(o, xv, yv, tv, res, s, p) ==
  /\ pc = "ready"
  /\ pc' = "done"
  /\ op' = o
  /\ x' = xv
  /\ y' = yv
  /\ t' = tv
  /\ out' = res
  /\ str' = s
  /\ path' = p
  /\ UNCHANGED <<a, heap>>

(* ---- src/complex.js.  A method reads other.re and other.im: on a bare   *)
(* real both are undefined.  A Decimal method given undefined throws       *)
(* DecimalError; a method called on undefined (as other.re.pow in div and  *)
(* other.im.eq in pow) raises TypeError.                                   *)
Operands == {Complex(re, im) : re \in SecondReals, im \in SecondReals} \cup SecondReals

This == Complex(a.re, a.im)

Add == \E o \in Operands :
  Return("add", This, o, ZERO,
         IF HasReIm(o) THEN Ok(add(This, o)) ELSE Raise("DecimalError"), "", "")

Sub == \E o \in Operands :
  Return("sub", This, o, ZERO,
         IF HasReIm(o) THEN Ok(sub(This, o)) ELSE Raise("DecimalError"), "", "")

Mul == \E o \in Operands :
  Return("mul", This, o, ZERO,
         IF HasReIm(o) THEN Ok(mul(This, o)) ELSE Raise("DecimalError"), "", "")

Div == \E o \in Operands :
  Return("div", This, o, ZERO,
         IF HasReIm(o) THEN Ok(div(This, o)) ELSE Raise("TypeError"), "", "")

Recip == Return("recip", This, NoArg, ZERO, Ok(recip(This)), "", "")

PowOperands ==
  {Complex(n, ZERO) : n \in Exponents} \cup {Complex(ONE, ONE), Complex(TWO, NaN), TWO}

powPath(b) == IF b = 0 THEN "general" ELSE "fast"

Pow == \E o \in PowOperands :
  Return("pow", This, o, ZERO,
         IF HasReIm(o) THEN Ok(pow(This, o))
         ELSE IF Dec_eq(a.re, ZERO) THEN Raise("TypeError") ELSE Raise("DecimalError"), "",
         IF HasReIm(o) THEN powPath(powBranch(This, o)) ELSE "")

Sqrt == Return("sqrt", This, NoArg, ZERO, Ok(sqrt(This)), "", sqrtBranch(This))

Ln == Return("ln", This, NoArg, ZERO, Ok(ln(This)), "", "")

\* an omitted argument: log's parameter n then defaults to new Complex(TEN)
Undefined == [undefined |-> TRUE]

Log == \E o \in Operands \cup {Undefined} :
  Return("log", This, o, ZERO,
         log(This, IF o = Undefined THEN Complex(TEN, ZERO) ELSE o), "", "")

LerpTs == {ZERO, ONE_HALF, ONE}

LerpOperands == {Complex(ONE, Dec(-2)), Complex(NaN, ZERO), THREE}

Lerp == \E o \in LerpOperands, tt \in LerpTs :
  Return("lerp", This, o, tt,
         IF HasReIm(o) THEN Ok(lerp(This, o, tt)) ELSE Raise("DecimalError"), "", "")

ToString == Return("toString", This, NoArg, ZERO, Ok(This), toString(This), "")

(* ---- src/unnamed/part_001: the static methods take a Complex or a bare  *)
(* real in either place.                                                   *)
Operands_1 ==
  {Complex_1(re, im) : re \in SecondReals, im \in SecondReals} \cup SecondReals

Firsts_1 == {Complex_1(a.re, a.im)} \cup (IF a.im = ZERO THEN {a.re} ELSE {})

ConvertToComplex == \E c \in Firsts_1 :
  Return("Complex.convertToComplex", c, NoArg, ZERO, Ok_1(convertToComplex(c)), "", "")

StaticAdd == \E c \in Firsts_1, o \in Operands_1 :
  Return("Complex.add", c, o, ZERO, Ok_1(Complex_add(c, o)), "", "")

StaticSubtract == \E c \in Firsts_1, o \in Operands_1 :
  Return("Complex.subtract", c, o, ZERO, Ok_1(Complex_subtract(c, o)), "", "")

StaticMultiply == \E c \in Firsts_1, o \in Operands_1 :
  Return("Complex.multiply", c, o, ZERO, Ok_1(Complex_multiply(c, o)), "", "")

StaticDivide == \E c \in Firsts_1, o \in Operands_1 :
  Return("Complex.divide", c, o, ZERO, Ok_1(Complex_divide(c, o)), "", "")

PowOperands_1 ==
  {Complex_1(n, ZERO) : n \in Exponents}
    \cup {Complex_1(ONE, ONE), Complex_1(TWO, NaN), TWO, ONE_HALF}

StaticExponent == \E c \in Firsts_1, o \in PowOperands_1 :
  Return("Complex.exponent", c, o, ZERO, Ok_1(Complex_exponent(c, o)), "",
         powPath(exponentBranch(c, o)))

StaticSqrt == \E c \in Firsts_1 :
  Return("Complex.sqrt", c, NoArg, ZERO, Ok_1(Complex_sqrt(c)), "", Complex_sqrtBranch(c))

StaticLn == \E c \in Firsts_1 :
  Return("Complex.ln", c, NoArg, ZERO, Ok_1(Complex_ln(c)), "", "")

\* log(c, b = TEN)
StaticLog == \E c \in Firsts_1, o \in Operands_1 \cup {Undefined} :
  Return("Complex.log", c, o, ZERO,
         Ok_1(Complex_log(c, IF o = Undefined THEN TEN ELSE o)), "", "")

LerpOperands_1 == {Complex_1(ONE, Dec(-2)), Complex_1(NaN, ZERO), THREE, Complex_1(THREE, ZERO)}

StaticLerp == \E c \in Firsts_1, o \in LerpOperands_1, tt \in LerpTs :
  Return("Complex.lerp", c, o, tt, Ok_1(Complex_lerp(c, o, tt)), "", "")

ToString_1 ==
  Return("toString_1", Complex_1(a.re, a.im), NoArg, ZERO, Ok_1(Complex_1(a.re, a.im)),
         toString_1(Complex_1(a.re, a.im)), "")

(* ---- the inverse functions.  src/complex.js: *)
CallAsin == Return("asin", This, NoArg, ZERO, Ok(asin(This)), "", "")

CallAcsch == Return("acsch", This, NoArg, ZERO, Ok(acsch(This)), "", "")

CallAsech == Return("asech", This, NoArg, ZERO, Ok(asech(This)), "", "")

CallAcoth == Return("acoth", This, NoArg, ZERO, Ok(acoth(This)), "", "")

\* src/unnamed/part_001:
CallStaticAsin == \E c \in Firsts_1 :
  Return("Complex.asin", c, NoArg, ZERO, Ok_1(Complex_asin(c)), "", "")

CallStaticAcsch == \E c \in Firsts_1 : \E res \in Complex_acsch(c) :
  Return("Complex.acsch", c, NoArg, ZERO, res, "", "")

CallStaticAsech == \E c \in Firsts_1 :
  Return("Complex.asech", c, NoArg, ZERO, Ok_1(Complex_asech(c)), "", "")

CallStaticAcoth == \E c \in Firsts_1 :
  Return("Complex.acoth", c, NoArg, ZERO, Ok_1(Complex_acoth(c)), "", "")

(* ---- calls on objects.  The operand is the caller's own object or the   *)
(* result of the call before; the heap keeps every object made so far.     *)
MaxCalls == 2

HeapOperands(form) ==
  {nameRef(heap, form)}
    \cup {heap.stack[n] : n \in {m \in DOMAIN heap.stack : heap.objs[heap.stack[m].obj].form = form}}

\* the heap on entry to a call on r
Enter(r) == push([Settled(heap) EXCEPT !.calls = @ + 1], r)

HeapReturn(o, r, h) ==
  /\ pc \in {"ready", "objects"}
  /\ heap.calls < MaxCalls
  /\ pc' = "objects"
  /\ heap' = h
  /\ op' = o
  /\ x' = r
  /\ UNCHANGED <<a, y, t, out, str, path>>

Asin == \E r \in HeapOperands("instance") : HeapReturn("asin", r, asin_h(Enter(r)))

\* asinh, complex.js 407-421: this.mul(I).asin().mul(NEG_I), then the sign
\* assignments on the result
Asinh == \E r \in HeapOperands("instance") :
  \E rotated \in {call2(mul, push(Enter(r), nameRef(heap, "I")))} :
  \E arcsine \in {asin_h(rotated)} :
  \E result \in {call2(mul, push(arcsine, nameRef(heap, "NEG_I")))} :
    HeapReturn("asinh", r, asinhWrites(result, r))

StaticAsin == \E r \in HeapOperands("static") :
  HeapReturn("Complex.asin", r, Complex_asin_h(Enter(r)))

\* Complex.asinh, part_001 280-293: c = Complex.convertToComplex(c), then
\* Complex.multiply(Complex.neg_i, Complex.asin(Complex.multiply(Complex.i, c))),
\* then the sign assignments on the result
StaticAsinh == \E r \in HeapOperands("static") :
  \E c \in {convertTop(Enter(r))} :
  \E rotated \in {static2(Complex_multiply,
                          push(push(push(pop(c, 1), nameRef(c, "neg_i")), nameRef(c, "i")),
                               top(c)))} :
  \E arcsine \in {Complex_asin_h(rotated)} :
  \E result \in {static2(Complex_multiply, arcsine)} :
    HeapReturn("Complex.asinh", r, asinhWrites(result, top(c)))

\* Complex.acosh(c), part_001 296-298, with Complex.acos(c), 228-230, for c on
\* top of the stack of h; the arguments are evaluated from left to right:
\* Complex.multiply(Complex.divide(Complex.exponent(Complex.subtract(c, ONE), ONE_HALF),
\*                                 Complex.exponent(Complex.subtract(ONE, c), ONE_HALF)),
\*                  Complex.subtract(PI_OVER_TWO, Complex.asin(c)))
\* The step after the last leaves the heap in h'.
StaticAcosh(o, r, h, positive) ==
  \E lower \in {static2(Complex_subtract, push(push(pop(h, 1), top(h)), Cell("ONE")))} :
  \E lowerRoot \in {static2(Complex_exponent, push(lower, Cell("ONE_HALF")))} :
  \E upper \in {static2(Complex_subtract, push(push(lowerRoot, Cell("ONE")), top(h)))} :
  \E upperRoot \in {static2(Complex_exponent, push(upper, Cell("ONE_HALF")))} :
  \E ratio \in {static2(Complex_divide, upperRoot)} :
  \E arcsine \in {Complex_asin_h(push(push(ratio, Cell("PI_OVER_TWO")), top(h)))} :
  \E arccosine \in {static2(Complex_subtract, arcsine)} :
  \E result \in {static2(Complex_multiply, arccosine)} :
    HeapReturn(o, r, asechWrite(result, positive))

\* Complex.asech, part_001 318-334
StaticAsechOf(r, h, c) ==
  IF Dec_eq(c.real, ZERO) /\ Dec_eq(c.imaginary, ZERO)
  THEN HeapReturn("Complex.asech", r, push(pop(h, 1), nameRef(h, "infinity")))
  ELSE \E inverse \in {constructValue_1(pop(h, 1),
                         inverseOf(c, Dec_add(Dec_pow(c.real, TWO),
                                                 Dec_pow(c.imaginary, TWO))))} :
         StaticAcosh("Complex.asech", r, inverse,
                     Dec_lt(c.real, ZERO) /\ Dec_eq(c.imaginary, ZERO))

StaticAsech == \E r \in HeapOperands("static") :
  \E h \in {convertTop(Enter(r))} : StaticAsechOf(r, h, Static(value(h, top(h))))

Init == Start(Firsts)

\* first operands for the calls on objects
HeapFirsts ==
  {Complex(ZERO, ZERO), Complex(ZERO, NEG_ONE), Complex(TWO, ZERO), Complex(Dec(-2), ZERO),
   Complex(ONE, ONE), Complex(ONE_HALF, NaN)}

InitHeap == Start(HeapFirsts)

\* further first operands: components of more than PRECISION digits, 4, and (3,-4)
LongFirsts ==
  {Complex(Huge(1), ZERO), Complex(ONE, Huge(3)), Complex(FOUR, ZERO), Complex(THREE, Dec(-4))}

InitLong == Start(Firsts \cup LongFirsts)

InitFew == Start(FewFirsts)

Next ==
  \/ Asin \/ Asinh \/ StaticAsin \/ StaticAsinh \/ StaticAsech
  \/ Add \/ Sub \/ Mul \/ Div \/ Recip \/ Pow \/ Sqrt \/ Ln \/ Log \/ Lerp \/ ToString
  \/ CallAsin \/ CallAcsch \/ CallAsech \/ CallAcoth
  \/ CallStaticAsin \/ CallStaticAcsch \/ CallStaticAsech \/ CallStaticAcoth
  \/ ConvertToComplex \/ StaticAdd \/ StaticSubtract \/ StaticMultiply \/ StaticDivide
  \/ StaticExponent \/ StaticSqrt \/ StaticLn \/ StaticLog \/ StaticLerp \/ ToString_1

\* every call on every first operand
Spec == Init /\ [][Next]_vars

\* the calls by kind
SpecArith ==
  InitLong /\ [][Add \/ Sub \/ Mul \/ Div \/ Recip
               \/ StaticAdd \/ StaticSubtract \/ StaticMultiply \/ StaticDivide]_vars

SpecPow == Init /\ [][Pow \/ StaticExponent]_vars

SpecSqrt == InitLong /\ [][Sqrt \/ StaticSqrt]_vars

SpecLog == Init /\ [][Ln \/ Log \/ StaticLn \/ StaticLog]_vars

SpecText == InitLong /\ [][ToString \/ ToString_1]_vars

\* every call that takes a second operand, on a few first operands
SpecBinary ==
  InitFew /\ [][Add \/ Sub \/ Mul \/ Div \/ Pow \/ Log \/ Lerp
                  \/ ConvertToComplex \/ StaticAdd \/ StaticSubtract \/ StaticMultiply
                  \/ StaticDivide \/ StaticExponent \/ StaticLog \/ StaticLerp]_vars

\* the calls of the inverse functions
SpecInverse ==
  Init /\ [][CallAsin \/ CallAcsch \/ CallAsech \/ CallAcoth
             \/ CallStaticAsin \/ CallStaticAcsch \/ CallStaticAsech \/ CallStaticAcoth]_vars

\* sequences of calls of asin, asinh and asech on objects
SpecHeap == InitHeap /\ [][Asin \/ Asinh \/ StaticAsin \/ StaticAsinh \/ StaticAsech]_vars

(***************************************************************************)
(* Properties.  Each is a predicate on the state after one call: op names  *)
(* the call, x and y its operands, out its outcome.                        *)
(***************************************************************************)
\* the residue modulo 4 of a finite integer n, read off its last two digits
Residue4(n) ==
  LET len == Len(n.d)
      m == IF n.d = <<>> \/ LowExp(n) >= 2 THEN 0
           ELSE IF LowExp(n) = 1 THEN (10 * n.d[len]) % 4
           ELSE ((IF len >= 2 THEN 10 * n.d[len - 1] ELSE 0) + n.d[len]) % 4
  IN IF n.s = 1 THEN m ELSE (4 - m) % 4

\* the powers of i: 1, i, -1, -i
ICycle == <<Complex(ONE, ZERO), Complex(ZERO, ONE), Complex(NEG_ONE, ZERO), Complex(ZERO, NEG_ONE)>>

ICycle_1 == [r \in 1..4 |-> Complex_1(ICycle[r].re, ICycle[r].im)]

\* pow was called on i with the exponent (n, 0), n an integer
PowOfI ==
  /\ pc = "done" /\ op = "pow" /\ x = I
  /\ HasReIm(y) /\ y.im = ZERO /\ Dec_isInt(y.re)

ExponentOfI ==
  /\ pc = "done" /\ op = "Complex.exponent" /\ x = Complex_1(ZERO, ONE)
  /\ "real" \in DOMAIN y /\ y.imaginary = ZERO /\ Dec_isInt(y.real)

\* add, or Complex.add, has returned
AddDone == pc = "done" /\ op = "add" /\ out.err = "none"

StaticAddDone == pc = "done" /\ op = "Complex.add"

\* p + q is a sum of finite values that needs no rounding, and p fits PRECISION
ExactSum(p, q) ==
  /\ p.k = "fin" /\ q.k = "fin"
  /\ Len(p.d) <= PRECISION
  /\ Round(FinAdd(p, q)) = FinAdd(p, q)

(* C2 as stated: for all complex a and b, sub(add(a, b), b) equals a       *)
(* exactly in both components.                                             *)
C2_AddSubRoundTrip ==
  /\ AddDone => eq(sub(out.v, y), x)
  /\ StaticAddDone
       => Complex_equals(Complex_subtract(out.v, y), convertToComplex(x))

(* C2 amended: for finite a and b, a of at most PRECISION digits in each   *)
(* component, whose component sums need no rounding, sub(add(a, b), b)     *)
(* equals a in both components.                                            *)
C2_ExactRoundTrip ==
  /\ (AddDone /\ ExactSum(x.re, y.re) /\ ExactSum(x.im, y.im))
       => eq(sub(out.v, y), x)
  /\ (StaticAddDone
        /\ ExactSum(convertToComplex(x).real, convertToComplex(y).real)
        /\ ExactSum(convertToComplex(x).imaginary, convertToComplex(y).imaginary))
       => Complex_equals(Complex_subtract(out.v, y), convertToComplex(x))

\* C2: (0.5, 2) + (-2, 1) = (-1.5, 3), and subtracting (-2, 1) gives (0.5, 2) back
C2_ExactAdd ==
  /\ AddDone
  /\ x = Complex(ONE_HALF, TWO) /\ y = Complex(Dec(-2), ONE)
  /\ ExactSum(x.re, y.re) /\ ExactSum(x.im, y.im)
  /\ out.v = Complex(Fin(-1, <<1, 5>>, -1), THREE)
  /\ sub(out.v, y) = x

\* recip has returned, on a z that does not equal zero
RecipOfNonzero == pc = "done" /\ op = "recip" /\ ~eq(x, Complex(ZERO, ZERO))

\* p approx-equals (1,0)
NearOne(p) == Complex_approxEquals(Complex_1(p.re, p.im), Complex_1(ONE, ZERO))

SqrtDone == pc = "done" /\ op = "sqrt"

StaticSqrtDone == pc = "done" /\ op = "Complex.sqrt"

(* C4: for every z with z.im == 0, sqrt(z) bypasses pow and returns        *)
(* (sqrt(z.re), 0) when z.re >= 0 and (0, sqrt(|z.re|)) when z.re < 0;     *)
(* only inputs with z.im != 0 are delegated to pow(z, 0.5); sqrt(-1) is    *)
(* exactly (0,1) and sqrt(4) is exactly (2,0).  In both forms of the       *)
(* class.                                                                  *)
C4_SqrtRealAxis ==
  /\ (SqrtDone /\ Dec_eq(x.im, ZERO) /\ Dec_gte(x.re, ZERO))
       => path = "nonneg" /\ out = Ok(Complex(Dec_sqrt(x.re), ZERO))
  /\ (SqrtDone /\ Dec_eq(x.im, ZERO) /\ Dec_lt(x.re, ZERO))
       => path = "neg" /\ out = Ok(Complex(ZERO, Dec_sqrt(Dec_abs(x.re))))
  /\ (SqrtDone /\ path = "pow")
       => ~Dec_eq(x.im, ZERO) /\ out = Ok(pow(x, Complex(ONE_HALF, ZERO)))
  /\ (SqrtDone /\ x = Complex(NEG_ONE, ZERO)) => out = Ok(Complex(ZERO, ONE))
  /\ (SqrtDone /\ x = Complex(FOUR, ZERO)) => out = Ok(Complex(TWO, ZERO))
  /\ (StaticSqrtDone /\ Dec_eq(convertToComplex(x).imaginary, ZERO)
        /\ Dec_gte(convertToComplex(x).real, ZERO))
       => path = "nonneg" /\ out = Ok_1(Complex_1(Dec_sqrt(convertToComplex(x).real), ZERO))
  /\ (StaticSqrtDone /\ Dec_eq(convertToComplex(x).imaginary, ZERO)
        /\ Dec_lt(convertToComplex(x).real, ZERO))
       => /\ path = "neg"
          /\ out = Ok_1(Complex_1(ZERO, Dec_sqrt(Dec_abs(convertToComplex(x).real))))
  /\ (StaticSqrtDone /\ path = "pow")
       => /\ ~Dec_eq(convertToComplex(x).imaginary, ZERO)
          /\ out = Ok_1(Complex_exponent(x, ONE_HALF))
  /\ (StaticSqrtDone /\ convertToComplex(x) = Complex_1(NEG_ONE, ZERO))
       => out = Ok_1(Complex_1(ZERO, ONE))
  /\ (StaticSqrtDone /\ convertToComplex(x) = Complex_1(FOUR, ZERO))
       => out = Ok_1(Complex_1(TWO, ZERO))

\* C4: sqrt of (-1, 0) took the branch of the negative reals and returned (0, 1)
C4_SqrtOfMinusOne ==
  /\ SqrtDone
  /\ x = Complex(NEG_ONE, ZERO)
  /\ path = "neg"
  /\ out = Ok(Complex(ZERO, ONE))

\* pow, or Complex.exponent, has returned a value
PowDone == pc = "done" /\ op = "pow" /\ out.err = "none"

ExponentDone == pc = "done" /\ op = "Complex.exponent"

\* the condition of the test: base.re == 0, exponent.im == 0, exponent.re an integer
FastTest(re, im, n) == Dec_eq(re, ZERO) /\ Dec_eq(im, ZERO) /\ Dec_isInt(n)

\* the table of C5 as stated, for the residue r and the magnitude m
StatedFastResult(r, m) ==
  IF r = 0 THEN Complex(m, ZERO)
  ELSE IF r = 1 THEN Complex(ZERO, Dec_mul(NEG_ONE, m))
  ELSE IF r = 2 THEN Complex(Dec_mul(NEG_ONE, m), ZERO)
  ELSE Complex(ZERO, m)

\* the table with the residues 1 and 3 as the powers of i have them
FastResult(r, m) ==
  IF r = 0 THEN Complex(m, ZERO)
  ELSE IF r = 1 THEN Complex(ZERO, m)
  ELSE IF r = 2 THEN Complex(Dec_mul(NEG_ONE, m), ZERO)
  ELSE Complex(ZERO, Dec_mul(NEG_ONE, m))

ToStringDone == pc = "done" /\ op = "toString"

ToStringDone_1 == pc = "done" /\ op = "toString_1"

(* C6: toString renders a value with zero imaginary part as the real       *)
(* component alone (so (0,0) is "0"), renders (3,-4) as "3 - 4i", and      *)
(* renders an imaginary coefficient of exactly 1 or -1 as "i" / "-i"       *)
(* without a numeral (so (0,1) is "i"); in both forms of the class.        *)
C6_ToStringForms ==
  /\ (ToStringDone /\ Dec_eq(x.im, ZERO)) => str = Dec_toString(x.re)
  /\ (ToStringDone /\ x = Complex(ZERO, ZERO)) => str = "0"
  /\ (ToStringDone /\ x = Complex(THREE, Dec(-4))) => str = "3 - 4i"
  /\ (ToStringDone /\ x = Complex(ZERO, ONE)) => str = "i"
  /\ (ToStringDone /\ x = Complex(ZERO, NEG_ONE)) => str = "-i"
  /\ (ToStringDone_1 /\ Dec_eq(x.imaginary, ZERO)) => str = Dec_toString(x.real)
  /\ (ToStringDone_1 /\ x = Complex_1(ZERO, ZERO)) => str = "0"
  /\ (ToStringDone_1 /\ x = Complex_1(THREE, Dec(-4))) => str = "3 - 4i"
  /\ (ToStringDone_1 /\ x = Complex_1(ZERO, ONE)) => str = "i"
  /\ (ToStringDone_1 /\ x = Complex_1(ZERO, NEG_ONE)) => str = "-i"

\* C6, the failing call: toString of (0, 1) in src/complex.js gives "1i"
C6_OneI == ToStringDone /\ x = Complex(ZERO, ONE) /\ str = "1i"

LogDone == pc = "done" /\ op = "log"

StaticLogDone == pc = "done" /\ op = "Complex.log"

(* C7: for every complex z and base b (base 10 when omitted), log(z, b)    *)
(* completes without raising and returns the complex quotient              *)
(* div(ln(z), ln(b)), where ln(w) = (ln(mod(w)), arg(w)); in both forms of *)
(* the class.                                                              *)
C7_LogIsQuotient ==
  /\ (LogDone /\ y = Undefined)
       => out = Ok(div(Complex(Dec_ln(mod(x)), arg(x)),
                       Complex(Dec_ln(mod(Complex(TEN, ZERO))), arg(Complex(TEN, ZERO)))))
  /\ (LogDone /\ HasReIm(y))
       => out = Ok(div(Complex(Dec_ln(mod(x)), arg(x)), Complex(Dec_ln(mod(y)), arg(y))))
  /\ StaticLogDone
       => out = Ok_1(Complex_divide(Complex_ln(x),
                                    Complex_ln(IF y = Undefined THEN TEN ELSE y)))

\* C7, the failing call: log of (2, 0) with the base omitted raises TypeError
C7_LogRaises ==
  /\ LogDone
  /\ x = Complex(TWO, ZERO) /\ y = Undefined
  /\ out.err = "TypeError"

\* a call of the name o has returned
Done(o) == pc = "done" /\ op = o

\* a call of an instance method of src/complex.js on a bare real has returned
BareCall ==
  /\ pc = "done"
  /\ op \in {"add", "sub", "mul", "div", "pow", "log", "lerp"}
  /\ y # Undefined /\ ~HasReIm(y)

\* the Complex (v, 0) for a bare real v, and v itself for a Complex
Wrap(v) == IF "real" \in DOMAIN v THEN v ELSE Complex_1(v, ZERO)

\* the same, in the fields of src/complex.js
WrapReIm(v) == IF HasReIm(v) THEN v ELSE Complex(v, ZERO)

\* the static calls return what they return on the wrapped operands
StaticCallsCoerce ==
  /\ Done("Complex.convertToComplex") => out = Ok_1(Wrap(x))
  /\ Done("Complex.add") => out = Ok_1(Complex_add(Wrap(x), Wrap(y)))
  /\ Done("Complex.subtract") => out = Ok_1(Complex_subtract(Wrap(x), Wrap(y)))
  /\ Done("Complex.multiply") => out = Ok_1(Complex_multiply(Wrap(x), Wrap(y)))
  /\ Done("Complex.divide") => out = Ok_1(Complex_divide(Wrap(x), Wrap(y)))
  /\ Done("Complex.exponent") => out = Ok_1(Complex_exponent(Wrap(x), Wrap(y)))
  /\ Done("Complex.log")
       => out = Ok_1(Complex_log(Wrap(x), Wrap(IF y = Undefined THEN TEN ELSE y)))
  /\ Done("Complex.lerp") => out = Ok_1(Complex_lerp(Wrap(x), Wrap(y), t))

(* C8 as stated: the coercion returns the very same value when given a     *)
(* Complex and otherwise (value, 0); every binary operation (add, sub,     *)
(* mul, div, pow, log, lerp) applies it to both operands, so a bare real x *)
(* as either operand gives the same result as the Complex (x, 0); in both  *)
(* forms of the class.                                                     *)
C8_EveryCallCoerces ==
  /\ StaticCallsCoerce
  /\ (BareCall /\ op = "add") => out = Ok(add(x, WrapReIm(y)))
  /\ (BareCall /\ op = "sub") => out = Ok(sub(x, WrapReIm(y)))
  /\ (BareCall /\ op = "mul") => out = Ok(mul(x, WrapReIm(y)))
  /\ (BareCall /\ op = "div") => out = Ok(div(x, WrapReIm(y)))
  /\ (BareCall /\ op = "pow") => out = Ok(pow(x, WrapReIm(y)))
  /\ (BareCall /\ op = "log") => out = Ok(div(ln(x), ln(WrapReIm(y))))
  /\ (BareCall /\ op = "lerp") => out = Ok(lerp(x, WrapReIm(y), t))

(* C8 amended: convertToComplex returns the value it is given when that is *)
(* a Complex and otherwise (value, 0), and every static binary operation   *)
(* of src/unnamed/part_001 (add, subtract, multiply, divide, exponent,     *)
(* log, lerp) returns for a bare real x in either place what it returns    *)
(* for the Complex (x, 0); the instance methods of src/complex.js raise an *)
(* error when their operand is a bare real.                                *)
C8_StaticCallsCoerce ==
  /\ StaticCallsCoerce
  /\ BareCall => out.err \in {"DecimalError", "TypeError"}

\* C8: Complex.add of the bare reals 2 and -2 returned (0, 0)
C8_BareAdd ==
  /\ Done("Complex.add")
  /\ x = TWO /\ y = Dec(-2)
  /\ out = Ok_1(Complex_1(ZERO, ZERO))

\* a value of the engine that is NaN or an Infinity
NonFinite(v) == v.k \in {"nan", "inf"}

(* C9: for every complex a, div(a, (0,0)) and recip((0,0)) raise no error  *)
(* and return a Complex whose two components are the non-finite values     *)
(* (NaN or Infinity) that the real engine yields for division by zero; no  *)
(* guard intercepts the zero divisor.  In both forms of the class.         *)
C9_DivisionByZero ==
  /\ (Done("div") /\ y = Complex(ZERO, ZERO))
       => /\ out.err = "none"
          /\ NonFinite(out.v.re) /\ NonFinite(out.v.im)
          /\ out.v.re = Dec_div(Dec_add(Dec_mul(x.re, ZERO), Dec_mul(x.im, ZERO)), ZERO)
          /\ out.v.im = Dec_div(Dec_sub(Dec_mul(x.im, ZERO), Dec_mul(x.re, ZERO)), ZERO)
  /\ (Done("recip") /\ x = Complex(ZERO, ZERO))
       => /\ out.err = "none"
          /\ NonFinite(out.v.re) /\ NonFinite(out.v.im)
          /\ out.v.re = Dec_div(ZERO, ZERO)
          /\ out.v.im = Dec_div(Dec_neg(ZERO), ZERO)
  /\ (Done("Complex.divide") /\ Wrap(y) = Complex_1(ZERO, ZERO))
       => /\ out.err = "none"
          /\ NonFinite(out.v.real) /\ NonFinite(out.v.imaginary)
          /\ out.v.real = Dec_div(Dec_add(Dec_mul(Wrap(x).real, ZERO),
                                           Dec_mul(Wrap(x).imaginary, ZERO)), ZERO)
          /\ out.v.imaginary = Dec_div(Dec_sub(Dec_mul(Wrap(x).imaginary, ZERO),
                                                Dec_mul(Wrap(x).real, ZERO)), ZERO)

\* C9: (1, -2) divided by (0, 0) returned (NaN, NaN)
C9_OneOverZero ==
  /\ Done("div")
  /\ x = Complex(ONE, Dec(-2)) /\ y = Complex(ZERO, ZERO)
  /\ out = Ok(Complex(NaN, NaN))

(* C1: for every integer n, pow with base i = (0,1) and exponent (n,0)     *)
(* returns exactly the value of the cycle 1, i, -1, -i that n modulo 4     *)
(* selects (residue 0: (1,0), 1: (0,1), 2: (-1,0), 3: (0,-1)); in both     *)
(* forms of the class.                                                     *)
C1_PowOfICycle ==
  /\ PowOfI => out = Ok(ICycle[Residue4(y.re) + 1])
  /\ ExponentOfI => out = Ok_1(ICycle_1[Residue4(y.real) + 1])

\* C1, the failing call: i to the power 100000000000000000001 comes out as -i
C1_HugeExponent ==
  /\ PowOfI
  /\ y.re = Huge(1)
  /\ Residue4(y.re) = 1
  /\ out = Ok(Complex(ZERO, NEG_ONE))

(* C1 on the exponents of at most PRECISION - 1 digits, where n + 1 and    *)
(* n + 3 are exact: there the cycle holds.                                 *)
C1_PowOfICycleSmall ==
  /\ (PowOfI /\ y.re.e < PRECISION - 1) => out = Ok(ICycle[Residue4(y.re) + 1])
  /\ (ExponentOfI /\ y.real.e < PRECISION - 1)
       => out = Ok_1(ICycle_1[Residue4(y.real) + 1])

\* every Decimal that existed when the last call was entered, those of the
\* operand and of the constants among them, still holds what it held then
OperandsHold == \A c \in 1..Len(heap.was) : heap.cells[c] = heap.was[c]

\* the exported constants and the components of the static members and of I
\* and NEG_I hold what they held when the modules were loaded
ConstantsHold ==
  \E loaded \in {LoadedCells(ConstantCells)} : SubSeq(heap.cells, 1, Len(loaded)) = loaded

\* the sign assignments of the last call went to Decimals made during that call
WritesFresh == heap.wrote \subseteq (Len(heap.was) + 1)..Len(heap.cells)

\* the object the last call returned was made during that call
ReturnsFresh == top(heap).obj > heap.had

\* the last call was Complex.asech on an operand equal to (0, 0)
AsechOfZero ==
  /\ op = "Complex.asech"
  /\ Dec_eq(value(heap, x).re, ZERO) /\ Dec_eq(value(heap, x).im, ZERO)

(* C10: after any sequence of calls of asin, asinh and asech, every        *)
(* operand and every shared constant (i, neg_i, zero, nan, infinity, I,    *)
(* NEG_I and the real constants) still holds the components it had         *)
(* before, and the sign assignments of asin, asinh and asech write only to *)
(* components made during the call, never to one aliased with an operand   *)
(* or a constant; each call returns a freshly created Complex, except      *)
(* Complex.asech on (0, 0), which returns the shared object                *)
(* Complex.infinity itself.                                                *)
C10_FrameOfCalls ==
  heap.calls > 0 =>
    /\ OperandsHold /\ ConstantsHold /\ WritesFresh
    /\ IF AsechOfZero THEN top(heap) = nameRef(heap, "infinity") ELSE ReturnsFresh

(* C10 as stated: every operand and constant holds its components, the     *)
(* sign assignments write only to the fresh result, and every call returns *)
(* a freshly created Complex.                                              *)
C10_EveryCallReturnsFresh ==
  heap.calls > 0 => OperandsHold /\ ConstantsHold /\ WritesFresh /\ ReturnsFresh

\* C10: a second call, Complex.asinh on a result that shares Decimals with no
\* constant, has assigned signs
C10_SignsAssigned ==
  /\ heap.calls = 2
  /\ op = "Complex.asinh"
  /\ heap.wrote # {}
  /\ x.obj > Len(LoadedHeap.objs) + 2

(* C11: at the origin the inverse reciprocal hyperbolic functions return   *)
(* their special values, not the NaN of the reciprocal formula:            *)
(* acsch((0,0)) = (Infinity, 0), asech((0,0)) = (Infinity, Infinity), the  *)
(* infinity constant, and acoth((0,0)) = (0, PI_OVER_TWO); in both forms   *)
(* of the class.                                                           *)
C11_SpecialValuesAtOrigin ==
  /\ (Done("acsch") /\ x = Complex(ZERO, ZERO)) => out = Ok(Complex(Infinity(1), ZERO))
  /\ (Done("asech") /\ x = Complex(ZERO, ZERO))
       => out = Ok(Complex(Infinity(1), Infinity(1)))
  /\ (Done("acoth") /\ x = Complex(ZERO, ZERO)) => out = Ok(Complex(ZERO, PI_OVER_TWO))
  /\ (Done("Complex.acsch") /\ Wrap(x) = Complex_1(ZERO, ZERO))
       => out = Ok_1(Complex_1(Infinity(1), ZERO))
  /\ (Done("Complex.asech") /\ Wrap(x) = Complex_1(ZERO, ZERO))
       => out = Ok_1(Complex_1(Infinity(1), Infinity(1)))
  /\ (Done("Complex.acoth") /\ Wrap(x) = Complex_1(ZERO, ZERO))
       => out = Ok_1(Complex_1(ZERO, PI_OVER_TWO_1))

\* C11, the failing call: acsch of (0, 0) in src/complex.js returned (NaN, NaN)
C11_AcschOfOriginIsNaN ==
  /\ Done("acsch")
  /\ x = Complex(ZERO, ZERO)
  /\ out = Ok(Complex(NaN, NaN))

(* C11 where it holds: Complex.asech and Complex.acoth of the static form  *)
(* return the special values at the origin.                                *)
C11_StaticSpecialValues ==
  /\ (Done("Complex.asech") /\ Wrap(x) = Complex_1(ZERO, ZERO))
       => out = Ok_1(Complex_1(Infinity(1), Infinity(1)))
  /\ (Done("Complex.acoth") /\ Wrap(x) = Complex_1(ZERO, ZERO))
       => out = Ok_1(Complex_1(ZERO, PI_OVER_TWO_1))

(* C11, the other calls at the origin: asech and acoth of src/complex.js   *)
(* return (NaN, NaN), and Complex.acsch of the static form returns no      *)
(* (Infinity, 0).                                                          *)
C11_OtherCallsAtOrigin ==
  /\ (Done("asech") /\ x = Complex(ZERO, ZERO)) => out = Ok(Complex(NaN, NaN))
  /\ (Done("acoth") /\ x = Complex(ZERO, ZERO)) => out = Ok(Complex(NaN, NaN))
  /\ (Done("Complex.acsch") /\ Wrap(x) = Complex_1(ZERO, ZERO))
       => out # Ok_1(Complex_1(Infinity(1), ZERO))

\* the condition of the claim on the operand (re, im)
SignMadeNegative(re, im) == Dec_lt(im, ZERO) \/ (Dec_gt(re, ZERO) /\ Dec_lte(im, ZERO))

\* the imaginary component im of asin(z), for the magnitude m computed of z
ImaginaryOfAsin(im, m, re0, im0) ==
  /\ ~(m.k # "nan" /\ m.s = -1)
  /\ im = IF SignMadeNegative(re0, im0) THEN Dec_neg(Dec_abs(m)) ELSE m

(* C12: for every complex z the imaginary component of asin(z) is the      *)
(* non-negative magnitude ln(b + sqrt(b^2 - 1)), with its sign made        *)
(* negative exactly when z.im < 0 or (z.re > 0 and z.im <= 0) and left as  *)
(* it is for every other z; in both forms of the class.                    *)
C12_AsinImaginarySign ==
  /\ Done("asin") => ImaginaryOfAsin(out.v.im, asinResult(x).im, x.re, x.im)
  /\ Done("Complex.asin")
       => ImaginaryOfAsin(out.v.imaginary, asinResult(Instance(Wrap(x))).im,
                          Wrap(x).real, Wrap(x).imaginary)

\* C12, the failing call: asin of (NaN, -1) returned the imaginary part -Infinity
C12_AsinOfNaN ==
  /\ Done("asin")
  /\ x = Complex(NaN, NEG_ONE)
  /\ asinResult(x).im = NaN
  /\ out.v.im = Infinity(-1)

(* C12 where it holds: on every z whose magnitude is a number; asin((2,0)) *)
(* has a negative imaginary part, asin((-2,0)) has not.                    *)
C12_AsinImaginarySignOfNumbers ==
  /\ (Done("asin") /\ asinResult(x).im.k # "nan")
       => ImaginaryOfAsin(out.v.im, asinResult(x).im, x.re, x.im)
  /\ (Done("Complex.asin") /\ asinResult(Instance(Wrap(x))).im.k # "nan")
       => ImaginaryOfAsin(out.v.imaginary, asinResult(Instance(Wrap(x))).im,
                          Wrap(x).real, Wrap(x).imaginary)
  /\ (Done("asin") /\ x = Complex(TWO, ZERO)) => out.v.im.s = -1
  /\ (Done("asin") /\ x = Complex(Dec(-2), ZERO)) => out.v.im.s # -1

\* 1/z = (re/(re^2 + im^2), -im/(re^2 + im^2)), given the sum of the squares
ReciprocalOver(re, im, sum) == Complex(Dec_div(re, sum), Dec_neg(Dec_div(im, sum)))

Reciprocal(re, im) == ReciprocalOver(re, im, Dec_add(Dec_pow(re, TWO), Dec_pow(im, TWO)))

Nonzero(re, im) == ~(Dec_eq(re, ZERO) /\ Dec_eq(im, ZERO))

(* C13: for every nonzero complex z, on the real axis or off it, acsch(z)  *)
(* is asinh applied to the reciprocal (re/(re^2+im^2), -im/(re^2+im^2));   *)
(* no z is evaluated as asinh of z itself.  In both forms of the class.    *)
C13_AcschIsAsinhOfReciprocal ==
  /\ (Done("acsch") /\ Nonzero(x.re, x.im)) => out = Ok(asinh(Reciprocal(x.re, x.im)))
  /\ (Done("Complex.acsch") /\ Nonzero(Wrap(x).real, Wrap(x).imaginary))
       => out = Ok_1(Complex_asinh(Static(Reciprocal(Wrap(x).real, Wrap(x).imaginary))))

(* C13, the failing call: Complex.acsch of (2, 0) returned                 *)
(* (ln(2 + sqrt(2^2 + 1)), 0), the inverse hyperbolic sine of 2 itself     *)
C13_AcschOfTwo ==
  /\ Done("Complex.acsch")
  /\ Wrap(x) = Complex_1(TWO, ZERO)
  /\ out = Ok_1(Complex_1(Dec_ln(Dec_add(TWO, Dec_sqrt(Dec_add(Dec_pow(TWO, TWO), ONE)))),
                          ZERO))
  /\ out # Ok_1(Complex_asinh(Static(Reciprocal(TWO, ZERO))))

(* C13 where it holds: acsch of src/complex.js on every nonzero z, and     *)
(* Complex.acsch of the static form on every z off the real axis.          *)
C13_AcschOffRealAxis ==
  /\ (Done("acsch") /\ Nonzero(x.re, x.im)) => out = Ok(asinh(Reciprocal(x.re, x.im)))
  /\ (Done("Complex.acsch") /\ ~Dec_eq(Wrap(x).imaginary, ZERO))
       => out = Ok_1(Complex_asinh(Static(Reciprocal(Wrap(x).real, Wrap(x).imaginary))))
====
